---------------------------- MODULE Spec2Model ----------------------------
(***************************************************************************)
(* lightkafka: the partitioned log storage layer (record-batch codec, log  *)
(* file, sparse index, segment, partition, segment cache, retention).      *)
(*                                                                         *)
(* Buffers are sequences of bytes (0..255) with the byte layout of the     *)
(* source; Go's b[lo:hi] is Slice(b, lo, hi).  Multi-byte integers are     *)
(* decoded big-endian.  CRC-32C is replaced by a 16-bit position-weighted  *)
(* checksum over the same byte range.  64-bit fields are decoded exactly   *)
(* when their value fits in 32 bits and saturate at +-Huge otherwise.      *)
(***************************************************************************)
EXTENDS Integers, Sequences, FiniteSets, TLC

(***************************************************************************)
(* Program constants                                                       *)
(***************************************************************************)
BATCH_HEADER_SIZE == 61
BATCH_OFFEST_SIZE == 8
BATCH_LENGTH_SIZE == 4
BATCH_LENTH_METADATA_SIZE == BATCH_OFFEST_SIZE + BATCH_LENGTH_SIZE
entryWidth == 8

\* Configuration of the modelled broker (segment.Config, PartitionConfig,
\* NewSegmentCache(capacity)); the values are scaled so that two batches
\* fill a segment.
SegmentMaxBytes == 124
IndexMaxBytes == 16
IndexIntervalBytes == 62
CacheCapacity == 1
NumPartitions == 1

\* Values beyond the 32-bit range that the model keeps exact.
Huge == 1000000000
CrcMod == 65521

(***************************************************************************)
(* Byte helpers (encoding/binary.BigEndian)                                *)
(***************************************************************************)
Slice(b, lo, hi) == SubSeq(b, lo + 1, hi)

Zeros(n) == [i \in 1..n |-> 0]

SignedByte(x) == IF x >= 128 THEN x - 256 ELSE x

Int32(b, i) ==
    SignedByte(b[i + 1]) * 16777216 + b[i + 2] * 65536 + b[i + 3] * 256 + b[i + 4]

Int64(b, i) ==
    LET hi == Slice(b, i, i + 4)
    IN  IF hi = <<0, 0, 0, 0>> /\ b[i + 5] < 128 THEN Int32(b, i + 4)
        ELSE IF hi = <<255, 255, 255, 255>> /\ b[i + 5] >= 128 THEN Int32(b, i + 4)
        ELSE IF b[i + 1] >= 128 THEN 0 - Huge ELSE Huge

PutUint32(v) ==
    << (v \div 16777216) % 256, (v \div 65536) % 256, (v \div 256) % 256, v % 256 >>

PutUint64(v) ==
    (IF v < 0 THEN <<255, 255, 255, 255>> ELSE <<0, 0, 0, 0>>) \o PutUint32(v)

Min(a, b) == IF a < b THEN a ELSE b
Max(a, b) == IF a > b THEN a ELSE b

(***************************************************************************)
(* Record batch codec (message.DecodeBatch)                                *)
(***************************************************************************)
RECURSIVE CrcSum(_, _, _)
CrcSum(b, lo, hi) ==
    IF lo > hi THEN 0
    ELSE IF lo = hi THEN (b[lo] + 1) * ((lo % 251) + 1)
    ELSE LET mid == (lo + hi) \div 2
         IN  CrcSum(b, lo, mid) + CrcSum(b, mid + 1, hi)

\* crc32.Checksum(data, crcTable): a position-weighted sum of the bytes
Checksum(b) == CrcSum(b, 1, Len(b)) % CrcMod

\* DecodeBatch(data): err is "nil", an error kind, or "panic" (the slice
\* expression data[61:payloadEnd] with payloadEnd < 61).
DecodeBatch(data) ==
    IF Len(data) < 61 THEN [err |-> "ErrInsufficientData"]
    ELSE LET BatchLength == Int32(data, 8)
             payloadEnd == 12 + BatchLength
         IN  IF Len(data) < BatchLength + 12 THEN [err |-> "ErrInsufficientData"]
             ELSE IF data[17] # 2 THEN [err |-> "ErrInvalidMagic"]
             ELSE IF PutUint32(Checksum(Slice(data, 21, Len(data)))) # Slice(data, 17, 21)
                  THEN [err |-> "ErrCRCMismatch"]
             ELSE IF payloadEnd < 61 THEN [err |-> "panic"]
             ELSE [err |-> "nil",
                   Header |-> [BaseOffset |-> Int64(data, 0),
                               BatchLength |-> BatchLength,
                               LastOffsetDelta |-> Int32(data, 23),
                               MaxTimestamp |-> Int64(data, 35),
                               RecordsCount |-> Int32(data, 57)],
                   Payload |-> Slice(data, 61, payloadEnd)]

\* A producer's batch: the header layout written by the batch builders, with
\* the CRC computed over everything after the CRC field.
BodyBytes(lastOffsetDelta, ts, recordsCount, payload) ==
    <<0, 0>> \o PutUint32(lastOffsetDelta) \o PutUint64(ts) \o PutUint64(ts)
        \o PutUint64(0 - 1) \o <<255, 255>> \o PutUint32(0 - 1)
        \o PutUint32(recordsCount) \o payload

createValidBatchBytes(baseOffset, recordsCount, ts, payload) ==
    LET body == BodyBytes(recordsCount - 1, ts, recordsCount, payload)
    IN  PutUint64(baseOffset) \o PutUint32(49 + Len(payload)) \o PutUint32(0)
            \o <<2>> \o PutUint32(Checksum(body)) \o body

(***************************************************************************)
(* Log file (segment.Log): data is the mapped region, size the logical     *)
(* size.                                                                   *)
(***************************************************************************)
\* Log.Append
LogAppend(data, size, b) ==
    LET n == Len(b)
    IN  IF size + n > Len(data) THEN [err |-> "ErrSegmentFull"]
        ELSE [err |-> "nil", n |-> n, pos |-> size, size |-> size + n,
              data |-> [i \in 1..Len(data) |->
                          IF i > size /\ i <= size + n THEN b[i - size] ELSE data[i]]]

\* Log.ReadRaw: kind "nil" is the (nil, nil) return, "panic" a slice
\* expression whose upper bound lies below its lower bound.
LogReadRaw(data, size, pos, n) ==
    IF pos + n > size THEN [kind |-> "nil", bytes |-> <<>>]
    ELSE IF n < 0 THEN [kind |-> "panic", bytes |-> <<>>]
    ELSE [kind |-> "ok", bytes |-> Slice(data, pos, pos + n)]

RECURSIVE ReadAtLoop(_, _, _, _, _)
ReadAtLoop(data, size, currentPos, totalBytes, maxBytes) ==
    IF ~(currentPos < size) THEN totalBytes
    ELSE IF size - currentPos < 12 THEN totalBytes
    ELSE LET batchLen == Int32(data, currentPos + 8)
             currentBatchSize == 12 + batchLen
         IN  IF currentPos + currentBatchSize > size THEN totalBytes
             ELSE IF totalBytes + currentBatchSize > maxBytes
                  THEN (IF totalBytes = 0 THEN currentBatchSize ELSE totalBytes)
             ELSE IF currentBatchSize <= 0 THEN 0 - 1
             ELSE ReadAtLoop(data, size, currentPos + currentBatchSize,
                             totalBytes + currentBatchSize, maxBytes)

\* Log.ReadAt
LogReadAt(data, size, pos, maxBytes) ==
    IF pos >= size THEN [err |-> "ErrOffsetOutOfRange", bytes |-> <<>>]
    ELSE LET totalBytes == ReadAtLoop(data, size, pos, 0, maxBytes)
         IN  IF totalBytes = 0 THEN [err |-> "nil", bytes |-> <<>>]
             ELSE IF totalBytes < 0 THEN [err |-> "panic", bytes |-> <<>>]
             ELSE [err |-> "nil", bytes |-> Slice(data, pos, pos + totalBytes)]

(***************************************************************************)
(* Index file (segment.Index): idx is the sequence of written entries      *)
(* <<relative offset, position>>; its logical size is entryWidth * Len.    *)
(***************************************************************************)
\* Index.Write on an index mapped over maxBytes bytes
IndexWriteWith(maxBytes, idx, off, pos) ==
    IF Len(idx) * entryWidth + entryWidth > maxBytes
    THEN [err |-> "EOF", idx |-> idx]
    ELSE [err |-> "nil", idx |-> Append(idx, <<off, pos>>)]

\* The index part of segment.Config with the values of the modelled broker.
SegmentConfig == [IndexIntervalBytes |-> IndexIntervalBytes, IndexMaxBytes |-> IndexMaxBytes]

\* Index.Write
IndexWrite(idx, off, pos) == IndexWriteWith(SegmentConfig.IndexMaxBytes, idx, off, pos)

\* Index.LastEntry
IndexLastEntry(idx) ==
    IF Len(idx) = 0 THEN [off |-> 0, pos |-> 0]
    ELSE [off |-> idx[Len(idx)][1], pos |-> idx[Len(idx)][2]]

RECURSIVE LookupLoop(_, _, _, _, _)
LookupLoop(idx, relOff, low, high, outPos) ==
    IF ~(low <= high) THEN outPos
    ELSE LET mid == (low + high) \div 2
         IN  IF idx[mid + 1][1] <= relOff
             THEN LookupLoop(idx, relOff, mid + 1, high, idx[mid + 1][2])
             ELSE LookupLoop(idx, relOff, low, mid - 1, outPos)

\* A lookup that returns the position of the first entry.
IndexLookupFirst(idx, relOff) ==
    IF Len(idx) = 0 THEN 0 ELSE idx[1][2]

\* Index.Lookup
IndexLookup(idx, relOff) ==
    IF Len(idx) = 0 THEN 0
    ELSE LET outPos == LookupLoop(idx, relOff, 0, Len(idx) - 1, 0 - 1)
         IN  IF outPos = 0 - 1 THEN 0 ELSE outPos

(***************************************************************************)
(* Segment (segment.Segment).  A segment object is a record                *)
(*   [BaseOffset, NextOffset, LargestTimestamp, size, idx]                 *)
(* where size is log.size and idx the index entries; the mapped bytes of   *)
(* its log are passed separately (they live in the file).                  *)
(***************************************************************************)
\* An update that keeps the latest timestamp instead of the largest.
UpdateLatestTimestamp(largest, maxTimestamp) == maxTimestamp
\* LargestTimestamp update of Segment.Append and Segment.recover
UpdateLargestTimestamp(largest, maxTimestamp) ==
    IF maxTimestamp > largest THEN maxTimestamp ELSE largest

\* An append that counts the record before it validates the batch.
SegmentAppendCounting(c, seg, data, batchBytes) ==
    [err |-> DecodeBatch(batchBytes).err, seg |-> [seg EXCEPT !.NextOffset = @ + 1],
     data |-> data, ret |-> seg.NextOffset]

\* Segment.Append of a segment built with config c
SegmentAppendWith(c, seg, data, batchBytes) ==
    LET d == DecodeBatch(batchBytes)
    IN  IF d.err # "nil" THEN [err |-> d.err, seg |-> seg, data |-> data, ret |-> 0]
        ELSE LET a == LogAppend(data, seg.size, batchBytes)
             IN  IF a.err # "nil"
                 THEN [err |-> a.err, seg |-> seg, data |-> data, ret |-> 0]
                 ELSE LET lastPos == IndexLastEntry(seg.idx).pos
                          doIndex == /\ a.n > 0
                                     /\ c.IndexIntervalBytes > 0
                                     /\ \/ a.size = a.n
                                        \/ a.pos - lastPos >= c.IndexIntervalBytes
                          relOffset == d.Header.BaseOffset - seg.BaseOffset
                          idx2 == IF doIndex
                                  THEN IndexWriteWith(c.IndexMaxBytes, seg.idx,
                                                      relOffset, a.pos).idx
                                  ELSE seg.idx
                      IN  [err |-> "nil",
                           seg |-> [seg EXCEPT
                                      !.idx = idx2,
                                      !.size = a.size,
                                      !.LargestTimestamp =
                                          UpdateLargestTimestamp(@, d.Header.MaxTimestamp),
                                      !.NextOffset = @ + d.Header.RecordsCount],
                           data |-> a.data,
                           ret |-> seg.NextOffset]

\* Segment.Append
SegmentAppend(seg, data, batchBytes) == SegmentAppendWith(SegmentConfig, seg, data, batchBytes)

RECURSIVE ReadScan(_, _, _, _)
\* The linear scan of Segment.Read: the position of the batch found, -1 when
\* the scan runs off the log, -2 when it slices a nil header or does not
\* advance.
ReadScan(data, size, currentPos, targetOffset) ==
    IF ~(currentPos < size) THEN 0 - 1
    ELSE LET hb == LogReadRaw(data, size, currentPos, 61)
         IN  IF hb.kind # "ok" THEN 0 - 2
             ELSE LET baseOffset == Int64(hb.bytes, 0)
                      batchLen == Int32(hb.bytes, 8)
                      lastOffsetDelta == Int32(hb.bytes, 23)
                      totalSize == 12 + batchLen
                      lastOffset == baseOffset + lastOffsetDelta
                  IN  IF lastOffset < targetOffset
                      THEN (IF totalSize <= 0 THEN 0 - 2
                            ELSE ReadScan(data, size, currentPos + totalSize, targetOffset))
                      ELSE currentPos

\* Segment.Read
SegmentRead(seg, data, targetOffset, maxBytes) ==
    IF targetOffset < seg.BaseOffset \/ targetOffset >= seg.NextOffset
    THEN [err |-> "ErrOffsetOutOfRange", bytes |-> <<>>]
    ELSE LET startPos == IndexLookup(seg.idx, targetOffset - seg.BaseOffset)
             currentPos == ReadScan(data, seg.size, startPos, targetOffset)
         IN  IF currentPos = 0 - 1 THEN [err |-> "ErrOffsetOutOfRange", bytes |-> <<>>]
             ELSE IF currentPos = 0 - 2 THEN [err |-> "panic", bytes |-> <<>>]
             ELSE LogReadAt(data, seg.size, currentPos, maxBytes)

RECURSIVE RecoverScanWith(_, _, _, _, _, _, _)
\* The scanning loop of Segment.recover over the whole mapped region, for a
\* segment built with config c.
RecoverScanWith(c, baseOff, data, currentPos, idx, lastIndexedPos, acc) ==
    LET done == [err |-> "nil", currentPos |-> currentPos, idx |-> idx,
                 lastNextOffset |-> acc.lastNextOffset, largest |-> acc.largest]
    IN  IF ~(currentPos < Len(data)) THEN done
        ELSE LET headerBuf == LogReadRaw(data, Len(data), currentPos, 12)
             IN  IF headerBuf.kind # "ok" THEN done
                 ELSE LET batchLen == Int32(headerBuf.bytes, 8)
                          totalBatchSize == 12 + batchLen
                          batchData == LogReadRaw(data, Len(data), currentPos, totalBatchSize)
                          batch == DecodeBatch(batchData.bytes)
                          reachedIndexThreshold ==
                              /\ c.IndexIntervalBytes > 0
                              /\ \/ lastIndexedPos = 0 - 1
                                 \/ currentPos - lastIndexedPos >= c.IndexIntervalBytes
                          w == IndexWriteWith(c.IndexMaxBytes, idx,
                                              batch.Header.BaseOffset - baseOff, currentPos)
                      IN  IF batchLen = 0 THEN done
                          ELSE IF batchData.kind = "panic" THEN [done EXCEPT !.err = "panic"]
                          ELSE IF batch.err = "panic" THEN [done EXCEPT !.err = "panic"]
                          ELSE IF batch.err # "nil" THEN done
                          ELSE IF reachedIndexThreshold /\ w.err # "nil"
                               THEN [done EXCEPT !.err = w.err]
                          ELSE RecoverScanWith(c, baseOff, data, currentPos + totalBatchSize,
                                   IF reachedIndexThreshold THEN w.idx ELSE idx,
                                   IF reachedIndexThreshold THEN currentPos ELSE lastIndexedPos,
                                   [lastNextOffset |->
                                        batch.Header.BaseOffset + batch.Header.RecordsCount,
                                    largest |-> UpdateLargestTimestamp(acc.largest,
                                                    batch.Header.MaxTimestamp)])

\* The scanning loop of Segment.recover
RecoverScan(baseOff, data, currentPos, idx, lastIndexedPos, acc) ==
    RecoverScanWith(SegmentConfig, baseOff, data, currentPos, idx, lastIndexedPos, acc)

\* Segment.recover on a segment object, built with config c, whose log is
\* mapped over data.
RecoverWith(c, seg, data) ==
    LET last == IndexLastEntry(seg.idx)
        validIndex == ~(last.pos > Len(data))
        useIndex == validIndex /\ last.pos > 0
        r == RecoverScanWith(c, seg.BaseOffset, data,
                 IF useIndex THEN last.pos ELSE 0,
                 IF useIndex THEN seg.idx ELSE <<>>,
                 IF useIndex THEN last.pos ELSE 0 - 1,
                 [lastNextOffset |-> IF useIndex THEN seg.BaseOffset + last.off
                                     ELSE seg.BaseOffset,
                  largest |-> seg.LargestTimestamp])
    IN  [err |-> r.err,
         seg |-> [seg EXCEPT !.idx = r.idx, !.size = r.currentPos,
                             !.NextOffset = r.lastNextOffset,
                             !.LargestTimestamp = r.largest]]

\* Segment.recover
Recover(seg, data) == RecoverWith(SegmentConfig, seg, data)

\* NewLog: the region mapped over a file, extended with zeroes to
\* SegmentMaxBytes when it is shorter.
MapFile(file) ==
    IF Len(file) < SegmentMaxBytes THEN file \o Zeros(SegmentMaxBytes - Len(file))
    ELSE Slice(file, 0, SegmentMaxBytes)

\* NewLog's effect on the file: pre-allocation up to SegmentMaxBytes.
Preallocate(file) ==
    IF Len(file) < SegmentMaxBytes THEN file \o Zeros(SegmentMaxBytes - Len(file))
    ELSE file

\* NewSegment(dir, baseOffset, c) on the log file content `file` (<<>> when
\* the file does not exist): NewLog, NewIndex (logical size 0), recover.
NewSegmentWith(c, file, baseOffset) ==
    RecoverWith(c, [BaseOffset |-> baseOffset, NextOffset |-> 0, LargestTimestamp |-> 0,
                    size |-> 0, idx |-> <<>>],
                MapFile(file))

\* NewSegment with the index configuration of the modelled broker
NewSegment(file, baseOffset) == NewSegmentWith(SegmentConfig, file, baseOffset)

\* A close that truncates the file to nothing.
CloseFileEmpty(file, size) == <<>>
\* Log.Close's effect on the file: truncate to the logical size.
CloseFile(file, size) ==
    IF size <= Len(file) THEN Slice(file, 0, size)
    ELSE file \o Zeros(size - Len(file))

(***************************************************************************)
(* Bounds of the model                                                     *)
(***************************************************************************)
MaxAppends == 3
MaxRestarts == 1
TsOld == 1
TsNew == 3

Readers == {"r1", "r2"}

(***************************************************************************)
(* Produce requests                                                        *)
(***************************************************************************)
BatchA == createValidBatchBytes(0, 1, TsOld, <<>>)
BatchB == createValidBatchBytes(0, 2, TsNew, <<7, 7>>)

\* A buffer that carries one byte more than its header declares, with the
\* CRC computed by the producer over the whole of data[21:].
BatchLong ==
    LET body == BodyBytes(0, TsOld, 1, <<>>) \o <<0>>
    IN  PutUint64(0) \o PutUint32(49) \o PutUint32(0) \o <<2>>
            \o PutUint32(Checksum(body)) \o body

BatchBadCrc == [BatchA EXCEPT ![18] = (@ + 1) % 256]
BatchShort == <<0, 0, 2>>
BatchHuge == createValidBatchBytes(0, 1, TsNew, Zeros(SegmentMaxBytes))

AppendInputs == {BatchShort, BatchA, BatchBadCrc, BatchLong, BatchB, BatchHuge}

MaxBytesInputs == {63, 2 * SegmentMaxBytes}
NowInputs == {TsNew, TsNew + 2}
Configs == [RetentionMs : {0 - 1, 1}, RetentionBytes : {0 - 1, 0, 130},
            IndexIntervalBytes : {IndexIntervalBytes}, IndexMaxBytes : {IndexMaxBytes}]

(***************************************************************************)
(* State                                                                   *)
(***************************************************************************)
VARIABLES
    files,          \* base offset -> bytes of {base}.log ({base}.index exists with it)
    Segments,       \* Partition.Segments
    activeSegment,  \* Partition.activeSegment (segment object)
    activeOpen,     \* the active segment's files are open and mapped
    cache,          \* SegmentCache.lruList: front first, [key, seg]
    pstate,         \* "open", "closed" (after Partition.Close), "crashed"
    LogStartOffset, \* Partition log start offset
    Config,         \* PartitionConfig (retention and index part)
    readers,        \* per reader: the cached segment a Partition.Read holds
    restarts,       \* number of NewPartition calls after the first
    hist,           \* successful Partition.Append calls: offset, bytes
    snap,           \* partition contents at the last Partition.Close
    last,           \* outcome of the last completed operation
    cleaner,        \* RetentionCleaner: its goroutine, stopCh, wg, ticker
    slices,         \* per connection: the mapped slice handleFetch returned
    lru             \* per cache key: when GetOrLoad was last called for it

vars == <<files, Segments, activeSegment, activeOpen, cache, pstate, LogStartOffset,
          Config, readers, restarts, hist, snap, last, cleaner, slices,
          lru>>

Idle == [pc |-> "idle", base |-> 0, closed |-> FALSE, offset |-> 0, maxBytes |-> 0]

\* Outcome of an operation.  ret: the offset an append returned, 1 for a read
\* served by a cached segment, the number of deletions of a retention pass;
\* n, first: length and first BaseOffset of the bytes a read returned (length
\* of the buffer for an append); arg: the target of a read, 1 for an append
\* that rolled, now for a retention pass; peak: the largest number of
\* segments open at once during the operation; before: Segments before it;
\* del: deletions of the three retention phases.
NoOp == [op |-> "none", err |-> "nil", ret |-> 0, n |-> 0, first |-> 0,
         arg |-> 0, peak |-> 0, before |-> <<0>>, del |-> <<0, 0, 0>>]

\* NewRetentionCleaner(interval): no partition registered, stopCh open, wg
\* zero.  run is the position of the goroutine Start spawns, stop the
\* position of the caller of Stop, tick a value waiting in ticker.C, passes
\* the number of cleanupAll calls completed (counted up to MaxPasses).
NewRetentionCleaner ==
    [partitions |-> 0, started |-> FALSE, run |-> "none", stopCh |-> "open",
     wg |-> 0, stop |-> "idle", tick |-> FALSE, passes |-> 0,
     mu |-> "free", list |-> <<>>, snapshot |-> <<>>, visited |-> <<>>]

\* A connection holds no slice.  Otherwise: the base offset of the segment
\* object the slice points into, whether that object is the active segment
\* or a cached one, and whether its mapping still exists.
NoSlice == [held |-> FALSE, base |-> 0, kind |-> "none", live |-> TRUE]

\* Keys of segments of other partitions that share the cache, and the
\* number of GetOrLoad calls followed.
KeyInputs == {10, 12, 14}
MaxUses == 4

\* No GetOrLoad call yet: clock counts the calls, used[k] is the number of
\* the last call for key k.
NeverUsed == [clock |-> 0, used |-> [k \in KeyInputs |-> 0]]

NoReading == \A r \in Readers : readers[r].pc = "idle"

ExistingFile(f, base) == IF base \in DOMAIN f THEN f[base] ELSE <<>>

SetFile(f, base, bytes) ==
    [b \in DOMAIN f \cup {base} |-> IF b = base THEN bytes ELSE f[b]]

\* Bytes of a file after a write through its mapping.
WriteMapped(file, data) ==
    IF Len(file) > Len(data) THEN data \o Slice(file, Len(data), Len(file)) ELSE data

OpenCount(c, aOpen) == Len(c) + (IF aOpen THEN 1 ELSE 0)

\* BaseOffset of the first batch of a returned byte range (-1 when empty).
FirstBase(bytes) == IF Len(bytes) >= 8 THEN Int64(bytes, 0) ELSE 0 - 1

(***************************************************************************)
(* NewPartition on an empty directory                                      *)
(***************************************************************************)
InitWith(configs) ==
    /\ Config \in configs
    /\ files = SetFile(<<>>, 0, Preallocate(<<>>))
    /\ Segments = <<0>>
    /\ activeSegment = NewSegmentWith(Config, <<>>, 0).seg
    /\ activeOpen = TRUE
    /\ cache = <<>>
    /\ pstate = "open"
    /\ LogStartOffset = 0
    /\ readers = [r \in Readers |-> Idle]
    /\ restarts = 0
    /\ hist = <<>>
    /\ snap = [NextOffset |-> 0, bytes |-> 0, offsets |-> {}]
    /\ last = NoOp
    /\ cleaner = NewRetentionCleaner
    /\ slices = [r \in Readers |-> NoSlice]
    /\ lru = NeverUsed

\* NewPartition with any retention configuration
Init == InitWith(Configs)

(***************************************************************************)
(* Segment cache (resource.SegmentCache)                                   *)
(***************************************************************************)
CacheIndex(c, key) ==
    IF \E i \in 1..Len(c) : c[i].key = key
    THEN CHOOSE i \in 1..Len(c) : c[i].key = key
    ELSE 0

RemoveAt(c, i) == SubSeq(c, 1, i - 1) \o SubSeq(c, i + 1, Len(c))

\* An eviction that removes the front element.
evictFront(c) ==
    IF Len(c) = 0 THEN [list |-> c, closed |-> <<>>]
    ELSE [list |-> Tail(c), closed |-> <<c[1]>>]

\* An eviction that drops the back element without closing its segment.
evictUnclosed(c) ==
    IF Len(c) = 0 THEN [list |-> c, closed |-> <<>>]
    ELSE [list |-> SubSeq(c, 1, Len(c) - 1), closed |-> <<>>]

\* SegmentCache.evict: removes the back element; closed is the sequence of
\* the entries whose segment it closed.
evict(c) ==
    IF Len(c) = 0 THEN [list |-> c, closed |-> <<>>]
    ELSE [list |-> SubSeq(c, 1, Len(c) - 1), closed |-> <<c[Len(c)]>>]

\* SegmentCache.GetOrLoad(key, loader); loaded is what the loader returns
\* when it is called.  peak is the largest number of cached-or-loaded
\* segments open at once during the call.
GetOrLoadWith(capacity, c, key, loaded) ==
    LET i == CacheIndex(c, key)
    IN  IF i # 0
        THEN [err |-> "nil", list |-> <<c[i]>> \o RemoveAt(c, i), seg |-> c[i].seg,
              closed |-> <<>>, called |-> FALSE, peak |-> Len(c)]
        ELSE IF loaded.err # "nil"
        THEN [err |-> loaded.err, list |-> c, seg |-> loaded.seg,
              closed |-> <<>>, called |-> TRUE, peak |-> Len(c)]
        ELSE LET e == IF Len(c) >= capacity THEN evict(c)
                      ELSE [list |-> c, closed |-> <<>>]
             IN  [err |-> "nil",
                  list |-> <<[key |-> key, seg |-> loaded.seg]>> \o e.list,
                  seg |-> loaded.seg, closed |-> e.closed, called |-> TRUE,
                  peak |-> Len(c) + 1]

GetOrLoad(c, key, loaded) == GetOrLoadWith(CacheCapacity, c, key, loaded)

\* Files after the cache closed the segments of the entries in closed.
RECURSIVE CloseAll(_, _)
CloseAll(f, closed) ==
    IF Len(closed) = 0 THEN f
    ELSE CloseAll(SetFile(f, closed[1].key,
                          CloseFile(ExistingFile(f, closed[1].key), closed[1].seg.size)),
                  Tail(closed))

ClosedKeys(closed) == {closed[i].key : i \in 1..Len(closed)}

(***************************************************************************)
(* Partition (partition.Partition)                                         *)
(***************************************************************************)
Result(op, err, ret, bytes, arg, peak) ==
    [op |-> op, err |-> err, ret |-> ret, n |-> Len(bytes), first |-> FirstBase(bytes),
     arg |-> arg, peak |-> peak, before |-> Segments, del |-> <<0, 0, 0>>]

\* A panic or a fault on unmapped memory ends the process; the files keep
\* what was written through the mappings.
Crash(res) ==
    /\ pstate' = "crashed"
    /\ activeOpen' = FALSE
    /\ cache' = <<>>
    /\ readers' = [r \in Readers |-> Idle]
    /\ last' = res

IsCrash(err) == err \in {"panic", "fault"}

\* A roll that leaves one offset unused.
RollBaseSkipping(seg) == seg.NextOffset + 1
\* The base offset of the segment a roll creates (nextOffset in
\* Partition.Append).
RollBase(seg) == seg.NextOffset

\* Partition.Append(batchBytes)
PartitionAppend(b) ==
    /\ pstate = "open"
    /\ NoReading
    /\ Len(hist) < MaxAppends
    /\ LET currentOffset == activeSegment.NextOffset
           base == activeSegment.BaseOffset
           bb == PutUint64(currentOffset) \o Slice(b, 8, Len(b))
           peak == OpenCount(cache, TRUE)
           r1 == SegmentAppendWith(Config, activeSegment, MapFile(files[base]), bb)
           \* the roll
           nextOffset == RollBase(activeSegment)
           filesC == SetFile(files, base, CloseFile(files[base], activeSegment.size))
           newSeg == NewSegmentWith(Config, ExistingFile(filesC, nextOffset), nextOffset)
           filesN == SetFile(filesC, nextOffset,
                             Preallocate(ExistingFile(filesC, nextOffset)))
           r2 == SegmentAppendWith(Config, newSeg.seg, MapFile(filesN[nextOffset]), bb)
       IN  IF Len(b) < 8
           THEN /\ last' = Result("append", "ErrInvalidBatchLength", 0, b, 0, peak)
                /\ UNCHANGED <<files, Segments, activeSegment, activeOpen, cache, pstate,
                               LogStartOffset, Config, readers, restarts, hist, snap>>
           ELSE IF ~activeOpen
           THEN /\ Crash(Result("append", "fault", 0, b, 0, peak))
                /\ UNCHANGED <<files, Segments, activeSegment, LogStartOffset, Config,
                               restarts, hist, snap>>
           ELSE IF r1.err = "ErrSegmentFull"
           THEN IF IsCrash(newSeg.err)
                THEN /\ Crash(Result("append", newSeg.err, 0, b, 0, peak))
                     /\ files' = filesN
                     /\ UNCHANGED <<Segments, activeSegment, LogStartOffset, Config,
                                    restarts, hist, snap>>
                ELSE IF newSeg.err # "nil"
                THEN /\ files' = filesN
                     /\ activeOpen' = FALSE
                     /\ last' = Result("append", newSeg.err, 0, b, 0, peak)
                     /\ UNCHANGED <<Segments, activeSegment, cache, pstate,
                                    LogStartOffset, Config, readers, restarts, hist, snap>>
                ELSE IF IsCrash(r2.err)
                THEN /\ Crash(Result("append", r2.err, 0, b, 0, peak))
                     /\ files' = filesN
                     /\ activeSegment' = newSeg.seg
                     /\ UNCHANGED <<Segments, LogStartOffset, Config, restarts, hist, snap>>
                ELSE /\ files' = SetFile(filesN, nextOffset,
                                         WriteMapped(filesN[nextOffset], r2.data))
                     /\ activeSegment' = r2.seg
                     /\ hist' = IF r2.err = "nil"
                                THEN Append(hist, [offset |-> r2.ret, bytes |-> bb,
                                                   seg |-> nextOffset])
                                ELSE hist
                     /\ last' = Result("append", r2.err, r2.ret, b, 1, peak)
                     /\ UNCHANGED <<Segments, activeOpen, cache, pstate, LogStartOffset,
                                    Config, readers, restarts, snap>>
           ELSE IF IsCrash(r1.err)
           THEN /\ Crash(Result("append", r1.err, 0, b, 0, peak))
                /\ UNCHANGED <<files, Segments, activeSegment, LogStartOffset, Config,
                               restarts, hist, snap>>
           ELSE /\ files' = SetFile(files, base, WriteMapped(files[base], r1.data))
                /\ activeSegment' = r1.seg
                /\ hist' = IF r1.err = "nil"
                           THEN Append(hist, [offset |-> r1.ret, bytes |-> bb, seg |-> base])
                           ELSE hist
                /\ last' = Result("append", r1.err, r1.ret, b, 0, peak)
                /\ UNCHANGED <<Segments, activeOpen, cache, pstate, LogStartOffset,
                               Config, readers, restarts, snap>>

\* The index sort.Search computes in Partition.Read, minus one, clamped at 0.
SearchIdx(segs, offset) ==
    LET idx == Cardinality({i \in 1..Len(segs) : segs[i] <= offset}) - 1
    IN  IF idx < 0 THEN 0 ELSE idx

\* Partition.Read(offset, maxBytes), up to and including cache.GetOrLoad: a
\* read of a cached segment then holds the segment it was given.
ReadBegin(r, offset, maxBytes) ==
    /\ pstate = "open"
    /\ readers[r].pc = "idle"
    /\ LET idle == OpenCount(cache, activeOpen)
           done(res) == /\ last' = res
                        /\ UNCHANGED <<files, Segments, activeSegment, activeOpen, cache,
                                       pstate, LogStartOffset, Config, readers, restarts,
                                       hist, snap>>
           base == activeSegment.BaseOffset
           ra == SegmentRead(activeSegment, MapFile(files[base]), offset, maxBytes)
           targetBaseOffset == Segments[SearchIdx(Segments, offset) + 1]
           loaded == NewSegmentWith(Config, ExistingFile(files, targetBaseOffset), targetBaseOffset)
           g == GetOrLoad(cache, targetBaseOffset, loaded)
           filesL == IF g.called
                     THEN SetFile(files, targetBaseOffset,
                                  Preallocate(ExistingFile(files, targetBaseOffset)))
                     ELSE files
           peak == g.peak + (IF activeOpen THEN 1 ELSE 0)
       IN  IF Len(Segments) = 0
           THEN done(Result("read", "ErrOffsetOutOfRange", 0, <<>>, offset, idle))
           ELSE IF offset < Segments[1]
           THEN done(Result("read", "ErrOffsetOutOfRange", 0, <<>>, offset, idle))
           ELSE IF offset >= activeSegment.NextOffset
           THEN done(Result("read", "nil", 0, <<>>, offset, idle))
           ELSE IF offset >= activeSegment.BaseOffset
           THEN IF ~activeOpen \/ IsCrash(ra.err)
                THEN /\ Crash(Result("read", "fault", 0, <<>>, offset, idle))
                     /\ UNCHANGED <<files, Segments, activeSegment, LogStartOffset,
                                    Config, restarts, hist, snap>>
                ELSE done(Result("read", ra.err, 0, ra.bytes, offset, idle))
           ELSE IF IsCrash(g.err)
           THEN /\ Crash(Result("read", g.err, 0, <<>>, offset, peak))
                /\ files' = filesL
                /\ UNCHANGED <<Segments, activeSegment, LogStartOffset, Config, restarts,
                               hist, snap>>
           ELSE IF g.err # "nil"
           THEN /\ files' = filesL
                /\ last' = Result("read", g.err, 0, <<>>, offset, peak)
                /\ UNCHANGED <<Segments, activeSegment, activeOpen, cache, pstate,
                               LogStartOffset, Config, readers, restarts, hist, snap>>
           ELSE /\ files' = CloseAll(filesL, g.closed)
                /\ cache' = g.list
                /\ readers' = [q \in Readers |->
                                 IF q = r
                                 THEN [pc |-> "reading", base |-> targetBaseOffset,
                                       closed |-> FALSE, offset |-> offset,
                                       maxBytes |-> maxBytes]
                                 ELSE IF readers[q].pc = "reading"
                                         /\ readers[q].base \in ClosedKeys(g.closed)
                                 THEN [readers[q] EXCEPT !.closed = TRUE]
                                 ELSE readers[q]]
                /\ last' = Result("load", "nil", 0, <<>>, offset, peak)
                /\ UNCHANGED <<Segments, activeSegment, activeOpen, pstate,
                               LogStartOffset, Config, restarts, hist, snap>>

\* The rest of Partition.Read: seg.Read(offset, maxBytes) on the segment
\* returned by the cache.  A closed segment is unmapped: reading it either
\* ends the process or yields whatever is mapped at the address by then.
ReadEnd(r) ==
    /\ pstate = "open"
    /\ readers[r].pc = "reading"
    /\ LET rd == readers[r]
           i == CacheIndex(cache, rd.base)
           res == SegmentRead(cache[i].seg, MapFile(files[rd.base]), rd.offset, rd.maxBytes)
           peak == OpenCount(cache, activeOpen)
       IN  IF rd.closed
           THEN \/ /\ Crash(Result("read", "fault", 1, <<>>, rd.offset, peak))
                   /\ UNCHANGED <<files, Segments, activeSegment, LogStartOffset,
                                  Config, restarts, hist, snap>>
                \/ /\ readers' = [readers EXCEPT ![r] = Idle]
                   /\ last' = Result("read", "fault", 1, <<>>, rd.offset, peak)
                   /\ UNCHANGED <<files, Segments, activeSegment, activeOpen, cache,
                                  pstate, LogStartOffset, Config, restarts, hist, snap>>
           ELSE IF IsCrash(res.err)
           THEN /\ Crash(Result("read", res.err, 1, <<>>, rd.offset, peak))
                /\ UNCHANGED <<files, Segments, activeSegment, LogStartOffset, Config,
                               restarts, hist, snap>>
           ELSE /\ readers' = [readers EXCEPT ![r] = Idle]
                /\ last' = Result("read", res.err, 1, res.bytes, rd.offset, peak)
                /\ UNCHANGED <<files, Segments, activeSegment, activeOpen, cache, pstate,
                               LogStartOffset, Config, restarts, hist, snap>>

RECURSIVE SortedSeq(_)
SortedSeq(S) ==
    IF S = {} THEN <<>>
    ELSE LET m == CHOOSE x \in S : \A y \in S : x <= y
         IN  <<m>> \o SortedSeq(S \ {m})

RECURSIVE SumSeq(_)
SumSeq(q) == IF Len(q) = 0 THEN 0 ELSE q[1] + SumSeq(Tail(q))

\* Logical size of the log of segment base: the open object's size, or what
\* is left in the file of a closed segment.
LogicalSize(base) ==
    IF activeOpen /\ base = activeSegment.BaseOffset THEN activeSegment.size
    ELSE IF CacheIndex(cache, base) # 0 THEN cache[CacheIndex(cache, base)].seg.size
    ELSE Len(files[base])

Stored(h) == {i \in 1..Len(h) : h[i].seg \in DOMAIN files}

CacheKeys(c) == {c[i].key : i \in 1..Len(c)}

\* The step unmapped the segment object slice sl points into: Log.Close
\* (munmap) of the active segment by Partition.Close or by a roll, or of a
\* cached segment by an eviction, a retention deletion or SegmentCache.Close.
Unmapped(sl, rolled) ==
    IF sl.kind = "active" THEN ~activeOpen' \/ rolled
    ELSE sl.base \notin CacheKeys(cache')

\* The slices after a step; the end of the process ends the connections.
Tracked(r, rolled) ==
    IF pstate' = "crashed" THEN NoSlice
    ELSE IF slices[r].held /\ slices[r].live /\ Unmapped(slices[r], rolled)
    THEN [slices[r] EXCEPT !.live = FALSE]
    ELSE slices[r]

TrackSlices(rolled) == slices' = [r \in Readers |-> Tracked(r, rolled)]

\* Partition.Close()
ClosePartition ==
    /\ pstate = "open"
    /\ NoReading
    /\ snap' = [NextOffset |-> activeSegment.NextOffset,
                bytes |-> LET bs == SortedSeq(DOMAIN files)
                          IN  SumSeq([i \in 1..Len(bs) |-> LogicalSize(bs[i])]),
                offsets |-> {hist[i].offset : i \in Stored(hist)}]
    /\ files' = IF activeOpen
                THEN SetFile(files, activeSegment.BaseOffset,
                             CloseFile(files[activeSegment.BaseOffset], activeSegment.size))
                ELSE files
    /\ activeOpen' = FALSE
    /\ pstate' = "closed"
    /\ last' = Result("close", "nil", 0, <<>>, 0, OpenCount(cache, activeOpen))
    /\ UNCHANGED <<Segments, activeSegment, cache, LogStartOffset, Config, readers,
                   restarts, hist, cleaner, lru>>
    /\ TrackSlices(FALSE)

\* SegmentCache.Close(), deferred to shutdown
CacheClose ==
    /\ pstate = "closed"
    /\ Len(cache) > 0
    /\ files' = CloseAll(files, cache)
    /\ cache' = <<>>
    /\ last' = Result("cacheclose", "nil", 0, <<>>, 0, OpenCount(cache, activeOpen))
    /\ UNCHANGED <<Segments, activeSegment, activeOpen, pstate, LogStartOffset, Config,
                   readers, restarts, hist, snap, cleaner, lru>>
    /\ TrackSlices(FALSE)

\* Partition.scanSegments: the base offsets of the *.log files, ascending
scanSegments(f) == SortedSeq(DOMAIN f)

\* NewPartition on the directory of a closed (or crashed) partition
NewPartition ==
    /\ pstate \in {"closed", "crashed"}
    /\ restarts < MaxRestarts
    /\ restarts' = restarts + 1
    /\ LET segs == scanSegments(files)
           lastOffset == IF Len(segs) = 0 THEN 0 ELSE segs[Len(segs)]
           seg == NewSegmentWith(Config, ExistingFile(files, lastOffset), lastOffset)
           peak == OpenCount(cache, TRUE)
       IN  /\ files' = SetFile(files, lastOffset,
                               Preallocate(ExistingFile(files, lastOffset)))
           /\ IF seg.err # "nil"
              THEN /\ last' = Result("reopen", seg.err, 0, <<>>, 0, peak)
                   /\ UNCHANGED <<Segments, activeSegment, activeOpen, pstate>>
              ELSE /\ Segments' = IF Len(segs) = 0 THEN <<0>> ELSE segs
                   /\ activeSegment' = seg.seg
                   /\ activeOpen' = TRUE
                   /\ pstate' = "open"
                   /\ last' = Result("reopen", "nil", 0, <<>>, 0, peak)
    /\ LogStartOffset' = 0
    /\ UNCHANGED <<cache, Config, readers, hist, snap, cleaner, lru>>
    /\ TrackSlices(FALSE)

(***************************************************************************)
(* Retention (Partition.DeleteOldSegments and its three phases).  st is    *)
(* [segs, files, cache, lso, deleted].                                     *)
(***************************************************************************)
\* The segment object retention consults for base offset base.
SegmentOf(st, base) ==
    IF activeOpen /\ base = activeSegment.BaseOffset THEN activeSegment
    ELSE IF CacheIndex(st.cache, base) # 0 THEN st.cache[CacheIndex(st.cache, base)].seg
    ELSE NewSegmentWith(Config, ExistingFile(st.files, base), base).seg

IsActive(base) == base = activeSegment.BaseOffset

\* A deletion that leaves the files in the directory.
RemoveFilesKeeping(f, base) == f

\* segment.RemoveFiles(dir, baseOffset)
RemoveFiles(f, base) == [b \in DOMAIN f \ {base} |-> f[b]]

\* One deletion: evict from the cache, unlink both files, drop the base
\* offset, advance the log start offset to the new front.
deleteSegment(st) ==
    LET base == st.segs[1]
        i == CacheIndex(st.cache, base)
        rest == Tail(st.segs)
    IN  [segs |-> rest,
         files |-> RemoveFiles(st.files, base),
         cache |-> IF i # 0 THEN RemoveAt(st.cache, i) ELSE st.cache,
         lso |-> IF Len(rest) > 0 THEN rest[1] ELSE st.lso,
         deleted |-> st.deleted + 1]

RECURSIVE deleteRetentionMsBreachedSegments(_, _, _)
deleteRetentionMsBreachedSegments(st, cfg, now) ==
    IF /\ cfg.RetentionMs > 0
       /\ Len(st.segs) > 0
       /\ ~IsActive(st.segs[1])
       /\ now - SegmentOf(st, st.segs[1]).LargestTimestamp > cfg.RetentionMs
    THEN deleteRetentionMsBreachedSegments(deleteSegment(st), cfg, now)
    ELSE st

RECURSIVE deleteLogStartOffsetBreachedSegments(_)
deleteLogStartOffsetBreachedSegments(st) ==
    IF /\ Len(st.segs) > 0
       /\ ~IsActive(st.segs[1])
       /\ SegmentOf(st, st.segs[1]).NextOffset <= st.lso
    THEN deleteLogStartOffsetBreachedSegments(deleteSegment(st))
    ELSE st

TotalSize(st) == SumSeq([i \in 1..Len(st.segs) |-> SegmentOf(st, st.segs[i]).size])

RECURSIVE sizeLoop(_, _, _)
sizeLoop(st, cfg, total) ==
    IF /\ total > cfg.RetentionBytes
       /\ Len(st.segs) > 0
       /\ ~IsActive(st.segs[1])
    THEN sizeLoop(deleteSegment(st), cfg, total - SegmentOf(st, st.segs[1]).size)
    ELSE st

deleteRetentionSizeBreachedSegments(st, cfg) ==
    IF cfg.RetentionBytes >= 0 THEN sizeLoop(st, cfg, TotalSize(st)) ELSE st

\* Partition.DeleteOldSegments()
DeleteOldSegments(now) ==
    /\ pstate = "open"
    /\ NoReading
    /\ LET st0 == [segs |-> Segments, files |-> files, cache |-> cache,
                   lso |-> LogStartOffset, deleted |-> 0]
           st1 == deleteRetentionMsBreachedSegments(st0, Config, now)
           st2 == deleteLogStartOffsetBreachedSegments(st1)
           st3 == deleteRetentionSizeBreachedSegments(st2, Config)
       IN  /\ Segments' = st3.segs
           /\ files' = st3.files
           /\ cache' = st3.cache
           /\ LogStartOffset' = st3.lso
           /\ last' = [Result("retention", "nil", st3.deleted, <<>>, now,
                              OpenCount(cache, activeOpen))
                       EXCEPT !.del = <<st1.deleted, st2.deleted - st1.deleted,
                                        st3.deleted - st2.deleted>>]
    /\ UNCHANGED <<activeSegment, activeOpen, pstate, Config, readers, restarts, hist, snap>>

(***************************************************************************)
(* Specifications                                                          *)
(***************************************************************************)
Produce(inputs) ==
    /\ \E b \in inputs : PartitionAppend(b)
    /\ TrackSlices(last'.arg = 1)
    /\ UNCHANGED <<cleaner, lru>>

Fetch(rs) ==
    /\ \E r \in rs, o \in 0..(2 * MaxAppends + 1), m \in MaxBytesInputs :
           /\ o <= activeSegment.NextOffset + 1
           /\ ReadBegin(r, o, m)
    /\ TrackSlices(FALSE)
    /\ UNCHANGED <<cleaner, lru>>

FetchDone(rs) ==
    /\ \E r \in rs : ReadEnd(r)
    /\ TrackSlices(FALSE)
    /\ UNCHANGED <<cleaner, lru>>

Retain ==
    /\ \E now \in NowInputs : DeleteOldSegments(now)
    /\ TrackSlices(FALSE)
    /\ UNCHANGED <<cleaner, lru>>

\* The default configuration: time-based retention only.
DefaultConfig == [RetentionMs |-> 1, RetentionBytes |-> 0 - 1,
                  IndexIntervalBytes |-> IndexIntervalBytes, IndexMaxBytes |-> IndexMaxBytes]

InitDefault == Init /\ Config = DefaultConfig

\* The operations present in the source: one connection at a time, every
\* kind of produce request, close and reopen.

Next ==
    \/ Produce(AppendInputs)
    \/ Fetch({"r1"})
    \/ FetchDone({"r1"})
    \/ ClosePartition
    \/ CacheClose
    \/ NewPartition

Spec == InitDefault /\ [][Next]_vars

\* A partition that is never closed: produce and fetch requests only.
NextFresh ==
    \/ Produce(AppendInputs)
    \/ Fetch({"r1"})
    \/ FetchDone({"r1"})

SpecFresh == InitDefault /\ [][NextFresh]_vars

\* Two concurrent fetch connections on a partition filled with one batch per
\* segment.
NextRace ==
    \/ Produce({BatchB})
    \/ Fetch(Readers)
    \/ FetchDone(Readers)
    \/ ClosePartition
    \/ CacheClose
    \/ NewPartition

SpecRace == InitDefault /\ [][NextRace]_vars

\* Every retention configuration, well-formed produce requests.
NextRetention ==
    \/ Produce({BatchA, BatchB})
    \/ Fetch({"r1"})
    \/ FetchDone({"r1"})
    \/ ClosePartition
    \/ NewPartition
    \/ Retain

SpecRetention == Init /\ [][NextRetention]_vars

\* Retention disabled, every accepted kind of produce request.
DisabledConfig == [RetentionMs |-> 0 - 1, RetentionBytes |-> 0 - 1,
                   IndexIntervalBytes |-> IndexIntervalBytes, IndexMaxBytes |-> IndexMaxBytes]

InitDisabled == Init /\ Config = DisabledConfig

NextDisabled ==
    \/ Produce({BatchA, BatchLong, BatchB})
    \/ Fetch({"r1"})
    \/ FetchDone({"r1"})
    \/ ClosePartition
    \/ NewPartition
    \/ Retain

SpecDisabled == InitDisabled /\ [][NextDisabled]_vars

\* A batch whose header counts two records but a last offset delta of 0.
BatchSkew ==
    LET body == BodyBytes(0, TsOld, 2, <<>>)
    IN  PutUint64(0) \o PutUint32(49) \o PutUint32(0) \o <<2>>
            \o PutUint32(Checksum(body)) \o body

\* The batch the client's builder encodes when no record was added:
\* RecordsCount 0 and LastOffsetDelta -1.
BatchNoRecords ==
    LET body == BodyBytes(0 - 1, TsOld, 0, <<>>)
    IN  PutUint64(0) \o PutUint32(49) \o PutUint32(0) \o <<2>>
            \o PutUint32(Checksum(body)) \o body

\* Produce requests whose header counts need not agree.
NextHeaders ==
    \/ Produce({BatchA, BatchSkew, BatchNoRecords, BatchB})
    \/ Fetch({"r1"})
    \/ FetchDone({"r1"})

SpecHeaders == InitDefault /\ [][NextHeaders]_vars

\* Header fields of a stored batch.
RecordsCountOf(bytes) == Int32(bytes, 57)
MaxTimestampOf(bytes) == Int64(bytes, 35)

(***************************************************************************)
(* Recovery of one segment file left behind by an earlier run               *)
(***************************************************************************)
MaxValid == 2
RecoverBases == {0, 100}

\* What may follow the last complete batch in the file.
Tails ==
    { <<>>,
      <<0, 0, 0, 0, 255, 255>>,
      Slice(BatchA, 0, 30),
      Slice(BatchB, 0, 62),
      BatchBadCrc,
      Zeros(8) \o <<255, 255, 255, 255>>,
      Zeros(8) \o <<255, 255, 255, 0>>,
      Zeros(8) \o <<0, 0, 0, 200>> }

ValidRuns == UNION {[1..k -> {"A", "B"}] : k \in 0..MaxValid}

BatchOfKind(kind, offset) ==
    IF kind = "A" THEN createValidBatchBytes(offset, 1, TsOld, <<>>)
    ELSE createValidBatchBytes(offset, 2, TsNew, <<7, 7>>)

\* The batches a partition wrote for run into the segment at base, as hist
\* records them.
RECURSIVE BuildLog(_, _, _)
BuildLog(base, run, offset) ==
    IF Len(run) = 0 THEN <<>>
    ELSE LET b == BatchOfKind(run[1], offset)
         IN  <<[offset |-> offset, bytes |-> b, seg |-> base]>>
                 \o BuildLog(base, Tail(run), offset + RecordsCountOf(b))

RECURSIVE ConcatBytes(_)
ConcatBytes(h) == IF Len(h) = 0 THEN <<>> ELSE h[1].bytes \o ConcatBytes(Tail(h))

InitRecover ==
    \E base \in RecoverBases, run \in ValidRuns, tail \in Tails :
        LET h == BuildLog(base, run, base)
        IN  /\ Len(ConcatBytes(h)) <= SegmentMaxBytes
            /\ files = SetFile(<<>>, base, ConcatBytes(h) \o tail)
            /\ Segments = <<base>>
            /\ activeSegment = [BaseOffset |-> base, NextOffset |-> 0,
                                LargestTimestamp |-> 0, size |-> 0, idx |-> <<>>]
            /\ hist = h
    /\ activeOpen = FALSE
    /\ cache = <<>>
    /\ pstate = "closed"
    /\ LogStartOffset = 0
    /\ Config = DefaultConfig
    /\ readers = [r \in Readers |-> Idle]
    /\ restarts = 0
    /\ snap = [NextOffset |-> 0, bytes |-> 0, offsets |-> {}]
    /\ last = NoOp
    /\ cleaner = NewRetentionCleaner
    /\ slices = [r \in Readers |-> NoSlice]
    /\ lru = NeverUsed

NextRecover ==
    \/ NewPartition
    \/ Produce({BatchA})

SpecRecover == InitRecover /\ [][NextRecover]_vars

(***************************************************************************)
(* RetentionCleaner (Register, Start, run, cleanupAll, Stop)               *)
(***************************************************************************)
MaxPasses == 2

\* RetentionCleaner.Register(p)
Register ==
    /\ cleaner.partitions < NumPartitions
    /\ cleaner' = [cleaner EXCEPT !.partitions = @ + 1]
    /\ UNCHANGED <<files, Segments, activeSegment, activeOpen, cache, pstate,
                   LogStartOffset, Config, readers, restarts, hist, snap, last, slices,
                   lru>>

\* RetentionCleaner.Start(): wg.Add(1); go rc.run()
Start ==
    /\ ~cleaner.started
    /\ cleaner' = [cleaner EXCEPT !.started = TRUE, !.wg = @ + 1, !.run = "new"]
    /\ UNCHANGED <<files, Segments, activeSegment, activeOpen, cache, pstate,
                   LogStartOffset, Config, readers, restarts, hist, snap, last, slices,
                   lru>>

\* run: ticker := time.NewTicker(rc.interval), then the first select
runNewTicker ==
    /\ cleaner.run = "new"
    /\ cleaner' = [cleaner EXCEPT !.run = "select"]
    /\ UNCHANGED <<files, Segments, activeSegment, activeOpen, cache, pstate,
                   LogStartOffset, Config, readers, restarts, hist, snap, last, slices,
                   lru>>

\* The runtime's timer puts a value in ticker.C (capacity 1; a tick that
\* finds the channel full is dropped).
TickerFire ==
    /\ cleaner.run \in {"select", "pass"}
    /\ ~cleaner.tick
    /\ cleaner' = [cleaner EXCEPT !.tick = TRUE]
    /\ UNCHANGED <<files, Segments, activeSegment, activeOpen, cache, pstate,
                   LogStartOffset, Config, readers, restarts, hist, snap, last, slices,
                   lru>>

\* run: select takes case <-ticker.C
runSelectTick ==
    /\ cleaner.run = "select"
    /\ cleaner.tick
    /\ cleaner' = [cleaner EXCEPT !.tick = FALSE, !.run = "pass"]
    /\ UNCHANGED <<files, Segments, activeSegment, activeOpen, cache, pstate,
                   LogStartOffset, Config, readers, restarts, hist, snap, last, slices,
                   lru>>

\* rc.cleanupAll(): p.DeleteOldSegments() on every registered partition,
\* then back to the select.
cleanupAll ==
    /\ cleaner.run = "pass"
    /\ IF cleaner.partitions = 0
       THEN UNCHANGED <<files, Segments, activeSegment, activeOpen, cache, pstate,
                        LogStartOffset, Config, readers, restarts, hist, snap, last>>
       ELSE \E now \in NowInputs : DeleteOldSegments(now)
    /\ TrackSlices(FALSE)
    /\ UNCHANGED lru
    /\ cleaner' = [cleaner EXCEPT !.run = "select",
                                  !.passes = IF @ < MaxPasses THEN @ + 1 ELSE @]

\* run: select takes case <-rc.stopCh (a closed channel is always ready);
\* the deferred ticker.Stop() and wg.Done() run.
runSelectStop ==
    /\ cleaner.run = "select"
    /\ cleaner.stopCh = "closed"
    /\ cleaner' = [cleaner EXCEPT !.run = "exited", !.wg = @ - 1, !.tick = FALSE]
    /\ UNCHANGED <<files, Segments, activeSegment, activeOpen, cache, pstate,
                   LogStartOffset, Config, readers, restarts, hist, snap, last, slices,
                   lru>>

\* RetentionCleaner.Stop(), first statement: close(rc.stopCh)
StopClose ==
    /\ cleaner.started
    /\ cleaner.stop = "idle"
    /\ cleaner' = [cleaner EXCEPT !.stopCh = "closed", !.stop = "waiting"]
    /\ UNCHANGED <<files, Segments, activeSegment, activeOpen, cache, pstate,
                   LogStartOffset, Config, readers, restarts, hist, snap, last, slices,
                   lru>>

\* rc.wg.Wait() returns when the counter is zero.
wgWaitSkipped(c) == TRUE

wgWait(c) == c.wg = 0

\* RetentionCleaner.Stop(), second statement: rc.wg.Wait(), then return
StopWait ==
    /\ cleaner.stop = "waiting"
    /\ wgWait(cleaner)
    /\ cleaner' = [cleaner EXCEPT !.stop = "returned"]
    /\ UNCHANGED <<files, Segments, activeSegment, activeOpen, cache, pstate,
                   LogStartOffset, Config, readers, restarts, hist, snap, last, slices,
                   lru>>

\* The broker's lifetime (cmd/broker/main.go): the cleaner is created,
\* given the partition and started, produce requests arrive, and Stop is
\* called once, before the partition is closed.
NextCleaner ==
    \/ Register
    \/ Start
    \/ runNewTicker
    \/ TickerFire
    \/ runSelectTick
    \/ cleanupAll
    \/ runSelectStop
    \/ StopClose
    \/ StopWait
    \/ Produce({BatchB})

SpecCleaner == InitDefault /\ [][NextCleaner]_vars

\* Every p.DeleteOldSegments() call returns, so the goroutine of run does not
\* stay inside cleanupAll for ever.
PassTerminates == []<>(cleaner.run # "pass")

\* Scheduling: a goroutine that can run does run (the goroutine of run
\* reaches its first select; the caller of Stop leaves wg.Wait once the
\* counter is zero), and a select with several ready cases picks among them
\* at random, so a case that is ready again and again is taken.
FairCleaner ==
    /\ WF_vars(runNewTicker)
    /\ PassTerminates
    /\ SF_vars(runSelectStop)
    /\ WF_vars(StopWait)

SpecCleanerFair == SpecCleaner /\ FairCleaner

(***************************************************************************)
(* cleanupAll statement by statement, with several partitions registered   *)
(* while the cleaner runs.  mu is the holder of rc.mu, list is              *)
(* rc.partitions, snapshot the local slice of cleanupAll, visited the       *)
(* partitions whose DeleteOldSegments the current pass has called.          *)
(* Partition 1 is the modelled partition; the others have no segments to   *)
(* delete.                                                                 *)
(***************************************************************************)
PartitionIds == {1, 2, 3}

\* RetentionCleaner.Register(p): lock, append, unlock
RegisterPartition ==
    \E p \in PartitionIds :
        /\ cleaner.mu = "free"
        /\ \A i \in 1..Len(cleaner.list) : cleaner.list[i] # p
        /\ cleaner' = [cleaner EXCEPT !.list = Append(@, p), !.partitions = @ + 1]
        /\ UNCHANGED <<files, Segments, activeSegment, activeOpen, cache, pstate,
                       LogStartOffset, Config, readers, restarts, hist, snap, last,
                       slices, lru>>

\* cleanupAll: rc.mu.Lock()
cleanupLock ==
    /\ cleaner.run = "pass"
    /\ cleaner.mu = "free"
    /\ cleaner' = [cleaner EXCEPT !.mu = "cleanupAll", !.run = "copy"]
    /\ UNCHANGED <<files, Segments, activeSegment, activeOpen, cache, pstate,
                   LogStartOffset, Config, readers, restarts, hist, snap, last, slices,
                   lru>>

\* cleanupAll: partitions := make(...); copy(partitions, rc.partitions);
\* rc.mu.Unlock()
cleanupCopy ==
    /\ cleaner.run = "copy"
    /\ cleaner' = [cleaner EXCEPT !.snapshot = cleaner.list, !.visited = <<>>,
                                  !.mu = "free", !.run = "visit"]
    /\ UNCHANGED <<files, Segments, activeSegment, activeOpen, cache, pstate,
                   LogStartOffset, Config, readers, restarts, hist, snap, last, slices,
                   lru>>

\* A loop that ranges over rc.partitions itself.
rangeLive(c) == c.list

\* The slice the loop of cleanupAll ranges over.
rangePartitions(c) == c.snapshot

\* cleanupAll: one iteration of the loop, p.DeleteOldSegments()
cleanupVisit ==
    /\ cleaner.run = "visit"
    /\ Len(cleaner.visited) < Len(rangePartitions(cleaner))
    /\ LET p == rangePartitions(cleaner)[Len(cleaner.visited) + 1]
       IN  /\ IF p = 1
              THEN \E now \in NowInputs : DeleteOldSegments(now)
              ELSE UNCHANGED <<files, Segments, activeSegment, activeOpen, cache, pstate,
                               LogStartOffset, Config, readers, restarts, hist, snap, last>>
           /\ cleaner' = [cleaner EXCEPT !.visited = Append(@, p)]
    /\ TrackSlices(FALSE)
    /\ UNCHANGED lru

\* cleanupAll returns; run goes back to its select.
cleanupReturn ==
    /\ cleaner.run = "visit"
    /\ Len(cleaner.visited) >= Len(rangePartitions(cleaner))
    /\ cleaner' = [cleaner EXCEPT !.run = "select",
                                  !.passes = IF @ < MaxPasses THEN @ + 1 ELSE @]
    /\ UNCHANGED <<files, Segments, activeSegment, activeOpen, cache, pstate,
                   LogStartOffset, Config, readers, restarts, hist, snap, last, slices,
                   lru>>

NextSnapshot ==
    \/ RegisterPartition
    \/ Start
    \/ runNewTicker
    \/ TickerFire
    \/ runSelectTick
    \/ cleanupLock
    \/ cleanupCopy
    \/ cleanupVisit
    \/ cleanupReturn
    \/ Produce({BatchB})

SpecSnapshot == InitDefault /\ [][NextSnapshot]_vars

(***************************************************************************)
(* Fetch connections (Broker.handleConnection, handleFetch): the bytes     *)
(* Partition.Read returned are a slice of the segment's mapping, written   *)
(* to the socket by protocol.SendResponse after the partition lock is      *)
(* released.                                                               *)
(***************************************************************************)
\* The read this step completed returned bytes.
GotBytes == last'.op = "read" /\ last'.err = "nil" /\ last'.n > 0 /\ pstate' = "open"

\* The slices after connection r ran a step of Partition.Read on a segment
\* of the given kind and base offset.
SlicesAfterRead(r, kind, base) ==
    [q \in Readers |->
        IF q = r /\ GotBytes
        THEN [held |-> TRUE, base |-> base, kind |-> kind, live |-> TRUE]
        ELSE Tracked(q, FALSE)]

\* handleFetch up to cache.GetOrLoad; a read served by the active segment
\* returns here.
FetchBegin(rs) ==
    /\ \E r \in rs, o \in 0..(2 * MaxAppends + 1), m \in MaxBytesInputs :
           /\ ~slices[r].held
           /\ o <= activeSegment.NextOffset + 1
           /\ ReadBegin(r, o, m)
           /\ slices' = SlicesAfterRead(r, "active", activeSegment.BaseOffset)
    /\ UNCHANGED <<cleaner, lru>>

\* The rest of handleFetch for a read served by a cached segment.
FetchEnd(rs) ==
    /\ \E r \in rs :
           /\ ReadEnd(r)
           /\ slices' = SlicesAfterRead(r, "cached", readers[r].base)
    /\ UNCHANGED <<cleaner, lru>>

\* protocol.SendResponse(conn, id, respBody): the write of the slice to
\* the socket ends.  Reading an unmapped slice either ends the process or
\* sends whatever is mapped at the address by then.
SendResponse(rs) ==
    /\ \E r \in rs :
           /\ slices[r].held
           /\ \/ /\ slices' = [slices EXCEPT ![r] = NoSlice]
                 /\ last' = Result("send", IF slices[r].live THEN "nil" ELSE "fault",
                                   0, <<>>, 0, OpenCount(cache, activeOpen))
                 /\ UNCHANGED <<files, Segments, activeSegment, activeOpen, cache,
                                pstate, LogStartOffset, Config, readers, restarts,
                                hist, snap>>
              \/ /\ ~slices[r].live
                 /\ Crash(Result("send", "fault", 0, <<>>, 0,
                                 OpenCount(cache, activeOpen)))
                 /\ slices' = [q \in Readers |-> NoSlice]
                 /\ UNCHANGED <<files, Segments, activeSegment, LogStartOffset,
                                Config, restarts, hist, snap>>
    /\ UNCHANGED <<cleaner, lru>>

\* Produce and fetch connections served concurrently, with retention.
NextSlices ==
    \/ Produce({BatchB})
    \/ FetchBegin(Readers)
    \/ FetchEnd(Readers)
    \/ SendResponse(Readers)
    \/ Retain

SpecSlices == InitDefault /\ [][NextSlices]_vars

\* A CRC-valid batch whose header carries a negative RecordsCount.
BatchNegative ==
    LET body == BodyBytes(0, TsOld, 0 - 2, <<>>)
    IN  PutUint64(0) \o PutUint32(49) \o PutUint32(0) \o <<2>>
            \o PutUint32(Checksum(body)) \o body

\* Produce requests with any signed RecordsCount, and a batch larger than a
\* segment.
NextSigned ==
    \/ Produce({BatchNegative, BatchB, BatchHuge})
    \/ Fetch({"r1"})
    \/ FetchDone({"r1"})

SpecSigned == InitDefault /\ [][NextSigned]_vars

(***************************************************************************)
(* The process-wide segment cache used on its own: GetOrLoad calls for     *)
(* segments of other partitions, then the shutdown (Partition.Close,       *)
(* SegmentCache.Close).                                                    *)
(***************************************************************************)
LruCapacity == 2

\* cache.GetOrLoad(key, loader) with the loader Partition.Read passes:
\* segment.NewSegment on the segment's files.
CacheGetOrLoad(key) ==
    /\ pstate = "open"
    /\ lru.clock < MaxUses
    /\ LET loaded == NewSegmentWith(Config, ExistingFile(files, key), key)
           g == GetOrLoadWith(LruCapacity, cache, key, loaded)
           filesL == IF g.called
                     THEN SetFile(files, key, Preallocate(ExistingFile(files, key)))
                     ELSE files
           peak == g.peak + (IF activeOpen THEN 1 ELSE 0)
       IN  IF g.err # "nil"
           THEN /\ files' = filesL
                /\ last' = Result("getorload", g.err, 0, <<>>, key, peak)
                /\ UNCHANGED cache
           ELSE /\ files' = CloseAll(filesL, g.closed)
                /\ cache' = g.list
                /\ last' = Result("getorload", "nil", IF g.called THEN 0 ELSE 1,
                                  <<>>, key, peak)
    /\ lru' = [clock |-> lru.clock + 1,
               used |-> [lru.used EXCEPT ![key] = lru.clock + 1]]
    /\ UNCHANGED <<Segments, activeSegment, activeOpen, pstate, LogStartOffset,
                   Config, readers, restarts, hist, snap, cleaner, slices>>

CacheUse == \E key \in KeyInputs : CacheGetOrLoad(key)

NextCache ==
    \/ CacheUse
    \/ ClosePartition
    \/ CacheClose

SpecCache == InitDefault /\ [][NextCache]_vars

(***************************************************************************)
(* Log start offset moved by the caller (Partition.SetLogStartOffset),     *)
(* retention otherwise disabled.                                           *)
(***************************************************************************)
\* Partition.SetLogStartOffset(offset), called with the base offset of the
\* second listed segment.
SetLogStartOffset ==
    /\ pstate = "open"
    /\ NoReading
    /\ Len(Segments) >= 2
    /\ LogStartOffset # Segments[2]
    /\ LogStartOffset' = Segments[2]
    /\ last' = Result("setlogstart", "nil", 0, <<>>, Segments[2],
                      OpenCount(cache, activeOpen))
    /\ UNCHANGED <<files, Segments, activeSegment, activeOpen, cache, pstate, Config,
                   readers, restarts, hist, snap, cleaner, slices, lru>>

NextLogStart ==
    \/ Produce({BatchA, BatchLong, BatchB})
    \/ ClosePartition
    \/ NewPartition
    \/ SetLogStartOffset
    \/ Retain

SpecLogStart == InitDisabled /\ [][NextLogStart]_vars

(***************************************************************************)
(* Index configurations: every indexing interval around the batch size     *)
(* (0 included) and an index file with room for one or two entries.        *)
(***************************************************************************)
IndexConfigs ==
    [RetentionMs : {0 - 1}, RetentionBytes : {0 - 1},
     IndexIntervalBytes : {0, BATCH_HEADER_SIZE, IndexIntervalBytes},
     IndexMaxBytes : {entryWidth, IndexMaxBytes}]

InitIndex == InitWith(IndexConfigs)

NextIndex ==
    \/ Produce({BatchA, BatchB})
    \/ Fetch({"r1"})
    \/ FetchDone({"r1"})
    \/ ClosePartition
    \/ NewPartition

SpecIndex == InitIndex /\ [][NextIndex]_vars

\* The index configurations with produce requests whose RecordsCount is
\* zero or negative.
NextIndexSigned ==
    \/ Produce({BatchNegative, BatchA, BatchNoRecords})
    \/ Fetch({"r1"})
    \/ FetchDone({"r1"})
    \/ ClosePartition
    \/ NewPartition

SpecIndexSigned == InitIndex /\ [][NextIndexSigned]_vars

(***************************************************************************)
(* DecodeBatch on its own: buffers cut short, with one byte changed (the   *)
(* declared length included) and with bytes after the batch.               *)
(***************************************************************************)
DecodeInputs ==
    {Slice(BatchB, 0, n) : n \in 0..Len(BatchB)}
        \cup {[BatchA EXCEPT ![i] = v] : i \in 1..Len(BatchA), v \in {0, 2, 255}}
        \cup {BatchA \o <<v>> : v \in {0, 2, 255}}
        \cup {BatchLong}

\* One call of message.DecodeBatch(data); the buffer and the outcome are kept
\* as the result of the last operation.
DecodeCall ==
    \E data \in DecodeInputs :
        /\ last' = [op |-> "decode", data |-> data, out |-> DecodeBatch(data)]
        /\ UNCHANGED <<files, Segments, activeSegment, activeOpen, cache, pstate,
                       LogStartOffset, Config, readers, restarts, hist, snap, cleaner,
                       slices, lru>>

NextDecode == DecodeCall

SpecDecode == InitDefault /\ [][NextDecode]_vars

(***************************************************************************)
(* Index.Lookup on its own: every strictly increasing index of up to       *)
(* MaxEntries entries, every target around its offsets.                    *)
(***************************************************************************)
MaxEntries == 3

IndexInputs ==
    LET entries == {0, 1, 3, 4} \X {0, BATCH_HEADER_SIZE, SegmentMaxBytes, 2 * SegmentMaxBytes}
        seqs == UNION {[1..k -> entries] : k \in 0..MaxEntries}
    IN  {q \in seqs : \A i \in 1..(Len(q) - 1) :
                          q[i][1] < q[i + 1][1] /\ q[i][2] < q[i + 1][2]}

\* One call of Index.Lookup(t) on an index holding idx; the index, the target
\* and the position returned are kept as the result of the last operation.
LookupCall ==
    \E idx \in IndexInputs, t \in (0 - 1)..5 :
        /\ last' = [op |-> "lookup", idx |-> idx, t |-> t, out |-> IndexLookup(idx, t)]
        /\ UNCHANGED <<files, Segments, activeSegment, activeOpen, cache, pstate,
                       LogStartOffset, Config, readers, restarts, hist, snap, cleaner,
                       slices, lru>>

NextLookup == LookupCall

SpecLookup == InitDefault /\ [][NextLookup]_vars

\* The life of cached segments: reads that load and evict, loaders that
\* fail (index configurations with room for one entry), Partition.Close,
\* SegmentCache.Close and a reopen.
NextCacheLife ==
    \/ Produce({BatchA, BatchB})
    \/ Fetch({"r1"})
    \/ FetchDone({"r1"})
    \/ ClosePartition
    \/ CacheClose
    \/ NewPartition

SpecCacheLife == InitIndex /\ [][NextCacheLife]_vars

(***************************************************************************)
(* Observations used by the properties                                     *)
(***************************************************************************)
\* What Partition.Read(offset, maxBytes) returns in the current state.
ReadNow(offset, maxBytes) ==
    LET targetBaseOffset == Segments[SearchIdx(Segments, offset) + 1]
        i == CacheIndex(cache, targetBaseOffset)
        seg == IF i # 0 THEN cache[i].seg
               ELSE NewSegmentWith(Config, ExistingFile(files, targetBaseOffset), targetBaseOffset).seg
    IN  IF Len(Segments) = 0 THEN [err |-> "ErrOffsetOutOfRange", bytes |-> <<>>]
        ELSE IF offset < Segments[1] THEN [err |-> "ErrOffsetOutOfRange", bytes |-> <<>>]
        ELSE IF offset >= activeSegment.NextOffset THEN [err |-> "nil", bytes |-> <<>>]
        ELSE IF offset >= activeSegment.BaseOffset
        THEN SegmentRead(activeSegment, MapFile(files[activeSegment.BaseOffset]),
                         offset, maxBytes)
        ELSE SegmentRead(seg, MapFile(ExistingFile(files, targetBaseOffset)),
                         offset, maxBytes)

\* The batches appended to segment base, in order.
BatchesOf(base) == {i \in 1..Len(hist) : hist[i].seg = base}

RECURSIVE MaxOver(_, _)
MaxOver(S, m) ==
    IF S = {} THEN m
    ELSE LET i == CHOOSE x \in S : TRUE
         IN  MaxOver(S \ {i}, Max(m, MaxTimestampOf(hist[i].bytes)))

AppendedLargestTimestamp(base) == MaxOver(BatchesOf(base), 0)

RECURSIVE SizeOver(_)
SizeOver(S) ==
    IF S = {} THEN 0
    ELSE LET i == CHOOSE x \in S : TRUE
         IN  Len(hist[i].bytes) + SizeOver(S \ {i})

AppendedSize(base) == SizeOver(BatchesOf(base))

Elems(q) == {q[i] : i \in 1..Len(q)}

IsSuffix(q, whole) ==
    /\ Len(q) <= Len(whole)
    /\ q = SubSeq(whole, Len(whole) - Len(q) + 1, Len(whole))

(***************************************************************************)
(* Properties                                                              *)
(***************************************************************************)
TypeOK ==
    /\ pstate \in {"open", "closed", "crashed"}
    /\ Len(hist) <= MaxAppends

WellFormed(bytes) == Len(bytes) = BATCH_LENTH_METADATA_SIZE + Int32(bytes, 8)

\* C2: with nothing retained, every offset returned by a successful append
\* of a well-formed batch can be read back: the read is non-empty and its
\* first batch has that BaseOffset, in the active segment and in older ones.
C2_AppendedReadable ==
    (/\ pstate = "open"
     /\ restarts = 0
     /\ \A i \in 1..Len(hist) : hist[i].seg \in DOMAIN files /\ WellFormed(hist[i].bytes))
        => \A i \in 1..Len(hist) :
              LET r == ReadNow(hist[i].offset, 2 * SegmentMaxBytes)
              IN  /\ r.err = "nil"
                  /\ Len(r.bytes) > 0
                  /\ FirstBase(r.bytes) = hist[i].offset

\* C3: right after a successful Append(B) returning a, Read(a, |B|) returns
\* exactly B with bytes 0..8 holding a.
C3_RoundTrip ==
    (last.op = "append" /\ last.err = "nil") =>
        LET h == hist[Len(hist)]
            r == ReadNow(h.offset, Len(h.bytes))
        IN  /\ h.bytes = PutUint64(h.offset) \o Slice(h.bytes, 8, Len(h.bytes))
            /\ r.err = "nil"
            /\ r.bytes = h.bytes

RecoveredSegment(base) == NewSegmentWith(Config, files[base], base).seg

\* Base offsets of the batches in the first size bytes of a log.
RECURSIVE WalkOffsets(_, _, _)
WalkOffsets(data, size, pos) ==
    IF pos + BATCH_LENTH_METADATA_SIZE > size THEN {}
    ELSE LET len == Int32(data, pos + 8)
         IN  IF len <= 0 \/ pos + BATCH_LENTH_METADATA_SIZE + len > size THEN {}
             ELSE {Int64(data, pos)}
                      \cup WalkOffsets(data, size, pos + BATCH_LENTH_METADATA_SIZE + len)

ValidBytesOnDisk ==
    LET bs == SortedSeq(DOMAIN files)
    IN  SumSeq([i \in 1..Len(bs) |-> RecoveredSegment(bs[i]).size])

OffsetsOnDisk ==
    UNION {WalkOffsets(MapFile(files[b]), RecoveredSegment(b).size, 0) : b \in DOMAIN files}

\* C4: a partition reopened after a clean close has the next offset, the
\* total of valid log bytes and the stored base offsets it had at the close.
C4_ReopenPreserves ==
    (last.op = "reopen" /\ last.err = "nil") =>
        /\ activeSegment.NextOffset = snap.NextOffset
        /\ ValidBytesOnDisk = snap.bytes
        /\ OffsetsOnDisk = snap.offsets

\* C5: recovery of a segment whose log is k valid batches followed by an
\* arbitrary tail does not fail, sets the size to the end of the k-th batch
\* and the next offset to just after its records (the base offset if k = 0).
C5_RecoveryTruncates ==
    (last.op = "reopen" /\ restarts = 1) =>
        /\ last.err = "nil"
        /\ activeSegment.size = Len(ConcatBytes(hist))
        /\ activeSegment.NextOffset =
               IF Len(hist) = 0 THEN activeSegment.BaseOffset
               ELSE hist[Len(hist)].offset + RecordsCountOf(hist[Len(hist)].bytes)

\* C6: the segments open at once, the peak inside a cache miss included,
\* never exceed the number of partitions plus the cache capacity.
C6_OpenSegmentsBounded == last.peak <= NumPartitions + CacheCapacity

\* C7: no fetch runs Segment.Read on a segment the cache has closed.
C7_NoReadOnClosed ==
    /\ \A r \in Readers : ~(readers[r].pc = "reading" /\ readers[r].closed)
    /\ ~(last.op = "read" /\ last.err = "fault")

\* C8: after a retention pass the segment list is non-empty and contains the
\* active segment's base offset, and a list holding only the active segment
\* loses nothing.
C8_ActiveSurvives ==
    last.op = "retention" =>
        /\ Len(Segments) > 0
        /\ activeSegment.BaseOffset \in Elems(Segments)
        /\ (last.before = <<activeSegment.BaseOffset>> => last.ret = 0)

Expired(base, now) == now - AppendedLargestTimestamp(base) > Config.RetentionMs

\* C9: a retention pass leaves a suffix of the list it found; the segments
\* its time phase deleted were non-active and older than RetentionMs by
\* their largest appended timestamp, and the phase stopped at a front that
\* is active or not expired; with RetentionMs <= 0 it deleted nothing.
C9_PrefixOnly ==
    last.op = "retention" =>
        LET before == last.before
            d1 == last.del[1]
            now == last.arg
        IN  /\ IsSuffix(Segments, before)
            /\ Len(Segments) = Len(before) - last.ret
            /\ \A i \in 1..d1 :
                   /\ before[i] # activeSegment.BaseOffset
                   /\ Expired(before[i], now)
                   /\ before[i] \notin DOMAIN files
            /\ (d1 < Len(before) /\ Config.RetentionMs > 0) =>
                   \/ before[d1 + 1] = activeSegment.BaseOffset
                   \/ ~Expired(before[d1 + 1], now)
            /\ Config.RetentionMs <= 0 => d1 = 0

\* C9 witness: the time phase deleted expired segments and stopped at a
\* remaining front.
C9_Witness ==
    /\ last.op = "retention"
    /\ last.del[1] >= 2
    /\ Len(Segments) >= 1

AppendedTotal(segs) == SumSeq([i \in 1..Len(segs) |-> AppendedSize(segs[i])])

C11_DisabledRetentionNoOp ==
    [][(last'.op = "retention" /\ Config = DisabledConfig /\ LogStartOffset = 0)
           => (last'.ret = 0 /\ UNCHANGED <<Segments, files, cache>>)]_vars

\* C12: in every state of an open partition, Read at the active segment's
\* next offset returns no bytes and no error.
C12_ReadAtEndEmpty ==
    pstate = "open" =>
        \A m \in MaxBytesInputs :
            LET r == ReadNow(activeSegment.NextOffset, m)
            IN  r.err = "nil" /\ r.bytes = <<>>

\* C13: Read above the active segment's next offset, and Read below the
\* first listed base offset, return ErrOffsetOutOfRange.
C13_ReadOutsideRejected ==
    pstate = "open" =>
        \A m \in MaxBytesInputs :
            /\ ReadNow(activeSegment.NextOffset + 1, m).err = "ErrOffsetOutOfRange"
            /\ Len(Segments) > 0 =>
                   ReadNow(Segments[1] - 1, m).err = "ErrOffsetOutOfRange"

ReadSizes == {0, 1, BATCH_HEADER_SIZE, 2 * SegmentMaxBytes}

\* The batches appended to segment base, oldest first.
SegBatches(base) == SelectSeq(hist, LAMBDA h : h.seg = base)

\* bytes is batches j .. j+k-1 of q, laid end to end.
IsRun(bytes, q, j, k) == bytes = ConcatBytes(SubSeq(q, j, j + k - 1))

\* C14: whatever max_bytes, a successful read of the active segment returns
\* one or more whole consecutive appended batches, and no more than
\* max(max_bytes, size of the first of them) bytes.
C14_WholeBatches ==
    (pstate = "open" /\ restarts = 0) =>
        \A o \in activeSegment.BaseOffset..(activeSegment.NextOffset - 1), m \in ReadSizes :
            LET r == SegmentRead(activeSegment, MapFile(files[activeSegment.BaseOffset]), o, m)
                q == SegBatches(activeSegment.BaseOffset)
            IN  r.err = "nil" =>
                    \E j \in 1..Len(q) : \E k \in 1..(Len(q) - j + 1) :
                        /\ IsRun(r.bytes, q, j, k)
                        /\ Len(r.bytes) <= Max(m, Len(q[j].bytes))

\* C15: every offset from the active segment's base up to its next offset
\* can be read, and the bytes returned start at a batch whose
\* [BaseOffset, BaseOffset + LastOffsetDelta] contains the target.
C15_ReadCoversTarget ==
    (pstate = "open" /\ restarts = 0) =>
        \A o \in activeSegment.BaseOffset..(activeSegment.NextOffset - 1) :
            LET r == SegmentRead(activeSegment, MapFile(files[activeSegment.BaseOffset]),
                                 o, 2 * SegmentMaxBytes)
            IN  /\ r.err = "nil"
                /\ Len(r.bytes) >= BATCH_HEADER_SIZE
                /\ Int64(r.bytes, 0) <= o
                /\ o <= Int64(r.bytes, 0) + Int32(r.bytes, 23)

\* The batch a step appended (hist grew by it).
Appended == hist'[Len(hist')]

\* C16: an accepted batch that fits the active segment, exactly filling it
\* included, is appended there without a roll; one that does not fit closes
\* the active segment, opens a new one at the old next offset and is
\* appended to it; and no batch of at most SegmentMaxBytes is refused with
\* ErrSegmentFull.
C16_RollExactlyWhenFull ==
    [][(last'.op = "append" /\ pstate = "open" /\ activeOpen) =>
          /\ Len(hist') > Len(hist) =>
                 IF activeSegment.size + Len(Appended.bytes) <= SegmentMaxBytes
                 THEN /\ last'.arg = 0
                      /\ Appended.seg = activeSegment.BaseOffset
                      /\ activeSegment'.BaseOffset = activeSegment.BaseOffset
                      /\ activeSegment'.size = activeSegment.size + Len(Appended.bytes)
                 ELSE /\ last'.arg = 1
                      /\ Appended.offset = activeSegment.NextOffset
                      /\ Appended.seg = activeSegment.NextOffset
                      /\ activeSegment'.BaseOffset = activeSegment.NextOffset
                      /\ activeSegment'.BaseOffset # activeSegment.BaseOffset
                      /\ activeSegment'.size = Len(Appended.bytes)
                      /\ Len(files'[activeSegment.BaseOffset]) = activeSegment.size
          /\ last'.err = "ErrSegmentFull" => last'.n > SegmentMaxBytes]_vars

\* Segment.recover run once more on the open active segment.
RecoverAgain == RecoverWith(Config, activeSegment, MapFile(files[activeSegment.BaseOffset]))

\* C17: recovery run again on the active segment, which was just recovered
\* or appended to, succeeds and leaves its next offset, logical size and
\* index entries as they are.
C17_RecoveryIdempotent ==
    (pstate = "open" /\ activeOpen) =>
        /\ RecoverAgain.err = "nil"
        /\ RecoverAgain.seg.NextOffset = activeSegment.NextOffset
        /\ RecoverAgain.seg.size = activeSegment.size
        /\ RecoverAgain.seg.idx = activeSegment.idx

\* Start positions of the batches in the first size bytes of a log.
RECURSIVE BatchStarts(_, _, _)
BatchStarts(data, size, pos) ==
    IF pos + BATCH_LENTH_METADATA_SIZE > size THEN {}
    ELSE LET len == Int32(data, pos + 8)
         IN  IF len <= 0 \/ pos + BATCH_LENTH_METADATA_SIZE + len > size THEN {}
             ELSE {pos} \cup BatchStarts(data, size, pos + BATCH_LENTH_METADATA_SIZE + len)

\* C18: a reopen, which starts from an empty index whatever the index file
\* holds, gives the active segment the next offset it had at the close and
\* the index entries the append path had written, each at the start of a
\* batch inside the logical log.
C18_IndexRebuilt ==
    [][(last'.op = "reopen" /\ last'.err = "nil" /\ pstate = "closed") =>
          /\ activeSegment'.NextOffset = activeSegment.NextOffset
          /\ activeSegment'.idx = activeSegment.idx
          /\ \A i \in 1..Len(activeSegment'.idx) :
                 activeSegment'.idx[i][2] \in
                     BatchStarts(MapFile(files'[activeSegment'.BaseOffset]),
                                 activeSegment'.size, 0)]_vars

\* C19: Stop, called once after Start, returns only when the goroutine of
\* run has exited, so never during a retention pass; once that goroutine
\* has exited no pass begins or completes; and a Stop that has closed
\* stopCh eventually returns.
C19_StopJoinsCleaner ==
    /\ [](cleaner.stop = "returned" => cleaner.run = "exited")
    /\ [][cleaner.run = "exited" =>
              /\ cleaner'.run = "exited"
              /\ cleaner'.passes = cleaner.passes
              /\ last'.op = "retention" => last' = last]_vars
    /\ (cleaner.stop = "waiting") ~> (cleaner.stop = "returned")

\* Stop has returned after a pass that deleted a segment.
C19_Witness ==
    /\ cleaner.stop = "returned"
    /\ cleaner.passes >= 1
    /\ last.op = "retention"
    /\ last.ret >= 1

\* A step that ran Partition.Append or a retention pass (both take p.mu.Lock).
WriterStep ==
    /\ last'.op \in {"append", "retention"}
    /\ last' # last \/ hist' # hist

\* Every batch appended so far is returned by Partition.Read at its offset.
AppendsVisible ==
    \A i \in 1..Len(hist), mb \in MaxBytesInputs :
        LET r == ReadNow(hist[i].offset, mb)
        IN  /\ r.err = "nil"
            /\ Len(r.bytes) >= BATCH_HEADER_SIZE
            /\ FirstBase(r.bytes) = hist[i].offset

\* C20: an Append or a retention pass runs only while no Read holds the
\* partition lock and no Read begins during it, while Reads may hold it
\* together; and on a partition that was never closed, any Read that takes
\* the lock after an Append returned offset o gets a non-empty result whose
\* first batch has BaseOffset o.
C20_LockAndReadYourWrites ==
    /\ [][WriterStep => (NoReading /\ readers' = readers)]_vars
    /\ []((pstate = "open" /\ restarts = 0) => AppendsVisible)

\* C21: while a connection still holds the slice Partition.Read returned,
\* the mapping the slice points into exists: no roll, eviction, cache close
\* or retention deletion has unmapped that segment.
C21_SliceStaysMapped == \A r \in Readers : slices[r].held => slices[r].live

StrictlyIncreasing(q) == \A i \in 1..(Len(q) - 1) : q[i] < q[i + 1]

\* C22: the segment list of an open partition is strictly increasing and
\* ends with the active segment's base offset, and an append that rolled
\* made the list one longer, the new element being the old active segment's
\* next offset.
C22_ListTracksRolls ==
    /\ [](pstate = "open" =>
            /\ StrictlyIncreasing(Segments)
            /\ Len(Segments) > 0
            /\ Segments[Len(Segments)] = activeSegment.BaseOffset)
    /\ [][(last'.op = "append" /\ last'.arg = 1 /\ hist' # hist) =>
              Segments' = Append(Segments, activeSegment.NextOffset)]_vars

\* C23: no cache entry is keyed by the active segment's base offset, and a
\* read puts in the cache only segments whose base offset lies below the
\* active segment's.
C23_ActiveNeverCached ==
    /\ [](pstate = "open" => activeSegment.BaseOffset \notin CacheKeys(cache))
    /\ [][last'.op = "load" =>
              \A k \in CacheKeys(cache') \ CacheKeys(cache) :
                  k < activeSegment.BaseOffset]_vars

\* The cached key whose last GetOrLoad call is the oldest.
Oldest(c) ==
    CHOOSE k \in CacheKeys(c) : \A j \in CacheKeys(c) : lru.used[k] <= lru.used[j]

\* The segment files of key k are open and mapped (preallocated).
MappedFile(f, k) == k \in DOMAIN f /\ Len(f[k]) = SegmentMaxBytes

\* C24: the cache never holds more than its capacity nor a key twice; a
\* GetOrLoad call leaves its key at the front; a hit keeps the other
\* entries in order and closes nothing; a miss on a full cache removes and
\* closes exactly the entry whose last GetOrLoad is the oldest, and a miss
\* on a cache with room removes nothing.
C24_LruCache ==
    /\ [](/\ Len(cache) <= LruCapacity
          /\ Cardinality(CacheKeys(cache)) = Len(cache))
    /\ [][(lru'.clock = lru.clock + 1 /\ last'.err = "nil") =>
              LET key == last'.arg
                  i == CacheIndex(cache, key)
              IN  /\ cache'[1].key = key
                  /\ \A k \in CacheKeys(cache') : MappedFile(files', k)
                  /\ IF i # 0
                     THEN /\ Tail(cache') = RemoveAt(cache, i)
                          /\ files' = files
                     ELSE IF Len(cache) < LruCapacity
                     THEN Tail(cache') = cache
                     ELSE /\ CacheKeys(cache') = (CacheKeys(cache) \ {Oldest(cache)}) \cup {key}
                          /\ Tail(cache') = SubSeq(cache, 1, Len(cache) - 1)
                          /\ ~MappedFile(files', Oldest(cache))]_vars

\* A key used second, then passed by a hit on the first key, was the one
\* evicted by a later miss.
C24_Witness ==
    /\ pstate = "open"
    /\ lru.used[12] = 2
    /\ lru.used[10] = 3
    /\ lru.used[14] = 4
    /\ CacheKeys(cache) = {10, 14}
    /\ ~MappedFile(files, 12)

LastOffsetOf(h) == h.offset + Int32(h.bytes, 23)

\* A step that ran a retention pass.
RetentionStep == last'.op = "retention" /\ (last' # last \/ Segments' # Segments)

\* C26: with time and size retention disabled, a pass deletes the front
\* segment when a second segment is listed and the log start offset has
\* reached that segment's base offset, and every segment a pass deletes held
\* only offsets below the log start offset.
C26_LogStartPhase ==
    [][RetentionStep =>
          /\ (Len(Segments) >= 2 /\ LogStartOffset >= Segments[2]
                  /\ activeSegment.BaseOffset # Segments[1])
                 => (Len(Segments') < Len(Segments) /\ last'.del[2] >= 1)
          /\ \A b \in Elems(Segments) \ Elems(Segments') :
                 \A i \in 1..Len(hist) :
                     hist[i].seg = b => LastOffsetOf(hist[i]) < LogStartOffset]_vars

\* The segment objects that are open: the active one and the cached ones.
OpenSegments ==
    (IF activeOpen THEN {activeSegment} ELSE {}) \cup {cache[i].seg : i \in 1..Len(cache)}

\* C27: every non-empty open segment has an index entry for its first batch
\* (relative offset 0, position 0), whatever IndexIntervalBytes is.
C27_FirstBatchIndexed ==
    \A sg \in OpenSegments :
        sg.size > 0 => (Len(sg.idx) > 0 /\ sg.idx[1] = <<0, 0>>)

\* The index of an open segment is a strictly increasing sparse subset of the
\* batch boundaries of its log.
IndexWellFormed(sg) ==
    LET data == MapFile(ExistingFile(files, sg.BaseOffset))
        starts == BatchStarts(data, sg.size, 0)
    IN  /\ \A i \in 1..(Len(sg.idx) - 1) :
               /\ sg.idx[i][1] < sg.idx[i + 1][1]
               /\ sg.idx[i][2] < sg.idx[i + 1][2]
        /\ \A i \in 1..Len(sg.idx) :
               /\ sg.idx[i][2] \in starts
               /\ sg.idx[i][1] = Int64(data, sg.idx[i][2]) - sg.BaseOffset

\* C28: in every reachable state the index entries of every open segment are
\* strictly increasing in relative offset and in position, every position is
\* the start of a batch of the log, and every relative offset is that batch's
\* BaseOffset minus the segment's base offset.
C28_IndexEntries == \A sg \in OpenSegments : IndexWellFormed(sg)

\* Index.Write on the segment's index would return io.EOF.
IndexFull(sg) == Len(sg.idx) * entryWidth + entryWidth > Config.IndexMaxBytes

\* C29: an index without room for another entry fails neither an append (it
\* returns an offset and next_offset advances) nor a reopen of the partition
\* (NewSegment succeeds and next_offset is the one the segment had at close).
C29_IndexFullSwallowed ==
    [][/\ (last'.op = "append" /\ hist' # hist /\ IndexFull(activeSegment) /\ last'.arg # 1)
              => /\ last'.err = "nil"
                 /\ activeSegment'.NextOffset > activeSegment.NextOffset
       /\ (last'.op = "reopen" /\ restarts' # restarts)
              => /\ last'.err = "nil"
                 /\ pstate' = "open"
                 /\ activeSegment'.NextOffset = snap.NextOffset]_vars

\* next_offset >= base_offset in every open segment.
NextNotBelowBase == \A sg \in OpenSegments : sg.NextOffset >= sg.BaseOffset

\* C30: every open segment has next_offset >= base_offset, before and after
\* every step, and a successful append never lowers the partition's next
\* offset, whatever RecordsCount the accepted batch carries.
C30_NextOffsetMonotone ==
    [][/\ NextNotBelowBase
       /\ NextNotBelowBase'
       /\ (last'.op = "append" /\ hist' # hist)
              => activeSegment'.NextOffset >= activeSegment.NextOffset]_vars

RECURSIVE WalkEnd(_, _, _)
\* Where a walk of the first size bytes of a log by the BatchLength fields
\* stops: size when they are a contiguous sequence of batches DecodeBatch
\* accepts, the position of the first byte that is not otherwise.
WalkEnd(data, size, pos) ==
    IF pos >= size THEN pos
    ELSE IF pos + BATCH_HEADER_SIZE > size THEN pos
    ELSE LET total == BATCH_LENTH_METADATA_SIZE + Int32(data, pos + 8)
         IN  IF total < BATCH_HEADER_SIZE \/ pos + total > size THEN pos
             ELSE IF DecodeBatch(Slice(data, pos, pos + total)).err # "nil" THEN pos
             ELSE WalkEnd(data, size, pos + total)

\* C31: every accepted buffer is exactly 12 + BatchLength bytes long and
\* carries the offset the append returned in its first 8 bytes, and the
\* bytes [0, size) of every open segment's log are a contiguous sequence of
\* well-formed batches.
C31_LogIsBatchSequence ==
    /\ \A i \in 1..Len(hist) :
           /\ WellFormed(hist[i].bytes)
           /\ Int64(hist[i].bytes, 0) = hist[i].offset
    /\ \A sg \in OpenSegments :
           sg.BaseOffset \in DOMAIN files =>
               WalkEnd(MapFile(files[sg.BaseOffset]), sg.size, 0) = sg.size

\* C32: an append that returns an error changes nothing it did not have to:
\* without a roll the active segment (size, index, next_offset,
\* largest_timestamp), the files and the rest of the partition are as before
\* (a buffer shorter than 8 bytes included); with a roll the closed segment's
\* log has the size it had before the call and the new active segment is
\* empty, its base and next offset being the old next_offset.
C32_FailedAppendNoChange ==
    [][(last'.op = "append" /\ last'.err \notin {"nil", "panic", "fault"}) =>
          /\ hist' = hist
          /\ Segments' = Segments /\ cache' = cache /\ pstate' = pstate
          /\ LogStartOffset' = LogStartOffset
          /\ IF last'.arg = 1
             THEN /\ activeSegment.NextOffset # activeSegment.BaseOffset =>
                         files'[activeSegment.BaseOffset] =
                             CloseFile(files[activeSegment.BaseOffset], activeSegment.size)
                  /\ activeSegment'.BaseOffset = activeSegment.NextOffset
                  /\ activeSegment'.NextOffset = activeSegment.NextOffset
                  /\ activeSegment'.size = 0
                  /\ activeSegment'.idx = <<>>
             ELSE /\ activeSegment' = activeSegment
                  /\ files' = files
                  /\ activeOpen' = activeOpen]_vars

C32_Witness ==
    /\ last.op = "append"
    /\ last.err = "ErrInvalidBatchLength"
    /\ activeSegment.size > 0

\* The outcome the format rules give for a buffer: the error kind, and the
\* payload when there is none.
Decoded(data) ==
    LET end == BATCH_LENTH_METADATA_SIZE + Int32(data, 8)
    IN  IF Len(data) < BATCH_HEADER_SIZE \/ Len(data) < end
        THEN [err |-> "ErrInsufficientData", Payload |-> <<>>]
        ELSE IF data[17] # 2 THEN [err |-> "ErrInvalidMagic", Payload |-> <<>>]
        ELSE IF PutUint32(Checksum(IF end > 21 THEN Slice(data, 21, end) ELSE <<>>))
                    # Slice(data, 17, 21)
             THEN [err |-> "ErrCRCMismatch", Payload |-> <<>>]
        ELSE [err |-> "nil",
              Payload |-> IF end > BATCH_HEADER_SIZE
                          THEN Slice(data, BATCH_HEADER_SIZE, end) ELSE <<>>]

\* C33: DecodeBatch returns, for every buffer, the outcome of the format
\* rules: InsufficientData, InvalidMagic, CrcMismatch over bytes
\* [21, 12 + BatchLength), or the header with payload [61, 12 + BatchLength);
\* it never panics.
C33_DecodeOutcomes ==
    last.op = "decode" =>
        /\ last.out.err = Decoded(last.data).err
        /\ last.out.err = "nil" => last.out.Payload = Decoded(last.data).Payload

\* C34: Index.Lookup(t) on a strictly increasing index returns the position
\* of the entry with the largest relative offset <= t, and 0 when the index
\* is empty or every entry's relative offset is above t.
C34_LookupFloor ==
    last.op = "lookup" =>
        LET below == {i \in 1..Len(last.idx) : last.idx[i][1] <= last.t}
        IN  IF below = {} THEN last.out = 0
            ELSE \E i \in below :
                    /\ \A j \in below : j <= i
                    /\ last.out = last.idx[i][2]

C34_Witness ==
    /\ last.op = "lookup"
    /\ Len(last.idx) = 3
    /\ last.idx[2][1] < last.t
    /\ last.t < last.idx[3][1]
    /\ last.out = last.idx[2][2]

\* q is the first Len(q) elements of w.
IsPrefix(q, w) == Len(q) <= Len(w) /\ q = SubSeq(w, 1, Len(q))

\* C35: a pass copies the registered partitions under the cleaner's lock at
\* its start and then calls DeleteOldSegments on the copied partitions, once
\* each and in order, with the lock free; a Register during the pass changes
\* neither the copy nor the partitions the pass visits.
C35_PassUsesSnapshot ==
    [][/\ cleaner'.run = "visit" =>
              /\ cleaner'.mu = "free"
              /\ IsPrefix(cleaner'.visited, cleaner'.snapshot)
       /\ (cleaner.run = "copy" /\ cleaner'.run = "visit") =>
              /\ cleaner'.snapshot = cleaner.list
              /\ cleaner'.visited = <<>>
       /\ (cleaner.run = "visit" /\ cleaner'.run = "visit") =>
              /\ cleaner'.snapshot = cleaner.snapshot
              /\ Len(cleaner'.visited) <= Len(cleaner.visited) + 1
       /\ (cleaner.run = "visit" /\ cleaner'.run = "select") =>
              cleaner.visited = cleaner.snapshot]_vars

\* C35 witness: a partition was registered while the pass was between two
\* DeleteOldSegments calls.
C35_Witness ==
    /\ cleaner.run = "visit"
    /\ Len(cleaner.snapshot) >= 2
    /\ Len(cleaner.visited) = 1
    /\ Len(cleaner.list) > Len(cleaner.snapshot)
    /\ last.op = "retention"

\* C36: while the partition is open its active segment is open (its log and
\* index are mapped), also after an append that returned an error.
C36_ActiveStaysOpen == pstate = "open" => activeOpen

\* The number of open Segment instances with base offset b: cache entries
\* keyed by b, plus the active segment when it is open at b.
OpenInstances(b) ==
    Cardinality({i \in 1..Len(cache) : cache[i].key = b})
        + (IF activeOpen /\ activeSegment.BaseOffset = b THEN 1 ELSE 0)

\* C37: in every reachable state at most one Segment instance is open for
\* each base offset, counting the active segment and the cache entries.
C37_OneInstancePerBase ==
    \A b \in CacheKeys(cache) \cup {activeSegment.BaseOffset} : OpenInstances(b) <= 1

\* C38: a segment is open exactly while the cache holds it: every entry's
\* files are mapped, an entry that leaves the cache (eviction or
\* SegmentCache.Close) is closed in the same step (its log is trimmed to its
\* logical size), Close leaves the cache empty, and a GetOrLoad whose loader
\* fails returns the error with the cache as it was and nothing closed.
C38_CachedSegmentsClosedOnce ==
    [][pstate' # "crashed" =>
          /\ \A k \in CacheKeys(cache') : MappedFile(files', k)
          /\ \A i \in 1..Len(cache) :
                 cache[i].key \notin CacheKeys(cache') =>
                     Len(files'[cache[i].key]) = cache[i].seg.size
          /\ Cardinality(CacheKeys(cache')) = Len(cache')
          /\ last'.op = "cacheclose" => cache' = <<>>
          /\ (last'.op = "read" /\ last'.err = "EOF") => cache' = cache]_vars

\* C38 witness: a read of an older segment whose loader failed.
C38_Witness ==
    /\ last.op = "read"
    /\ last.err = "EOF"
    /\ last.arg = 0
    /\ activeSegment.BaseOffset = 2

(***************************************************************************)
(* The record-per-entry segment (internal/store, internal/record): one     *)
(* memory-mapped file of maxSize bytes, one record per Append.              *)
(* encoding/binary.LittleEndian                                             *)
(***************************************************************************)
HEADER_SIZE == 32

PutUint32LE(v) ==
    << v % 256, (v \div 256) % 256, (v \div 65536) % 256, (v \div 16777216) % 256 >>

PutUint64LE(v) == PutUint32LE(v) \o <<0, 0, 0, 0>>

Uint32LE(b, i) ==
    IF b[i + 4] >= 128 THEN Huge
    ELSE b[i + 1] + b[i + 2] * 256 + b[i + 3] * 65536 + b[i + 4] * 16777216

Uint64LE(b, i) ==
    IF Slice(b, i + 4, i + 8) # <<0, 0, 0, 0>> THEN Huge ELSE Uint32LE(b, i)

\* Record.Size()
RecordSize(r) == HEADER_SIZE + Len(r.Key) + Len(r.Value)

\* Record.MarshalTo(dest) for a dest of exactly Size() bytes: header, key,
\* value, then the checksum of dest[16:] stored at dest[12:16].
MarshalTo(r) ==
    LET requiredSize == RecordSize(r)
        tail == PutUint64LE(r.Timestamp) \o PutUint32LE(Len(r.Key))
                    \o PutUint32LE(Len(r.Value)) \o r.Key \o r.Value
    IN  PutUint32LE(requiredSize) \o PutUint64LE(r.Offset)
            \o PutUint32LE(Checksum(tail)) \o tail

\* UnmarshalHeader(source): the two fields recovery reads.
UnmarshalHeader(source) ==
    [TotalSize |-> Uint32LE(source, 0), Offset |-> Uint64LE(source, 4)]

\* store.Segment.Append(record): [s, data, ret, err]
StoreAppend(s, data, r) ==
    LET needSize == RecordSize(r)
    IN  IF s.writePos + needSize > s.size
        THEN [s |-> s, data |-> data, ret |-> 0, err |-> "ErrSegmentFull"]
        ELSE LET currentOffset == s.nextOffset
                 bytes == MarshalTo([r EXCEPT !.Offset = currentOffset])
             IN  [s |-> [s EXCEPT !.writePos = @ + needSize, !.nextOffset = @ + 1],
                  data |-> Slice(data, 0, s.writePos) \o bytes
                               \o Slice(data, s.writePos + needSize, Len(data)),
                  ret |-> currentOffset, err |-> "nil"]

\* The loop of store.Segment.recover: [position, lastOffset, foundAny]
RECURSIVE StoreRecoverScan(_, _, _, _, _)
StoreRecoverScan(data, size, position, lastOffset, foundAny) ==
    LET stop == [position |-> position, lastOffset |-> lastOffset, foundAny |-> foundAny]
    IN  IF position + HEADER_SIZE > size THEN stop
        ELSE LET header == UnmarshalHeader(Slice(data, position, position + HEADER_SIZE))
             IN  IF header.TotalSize = 0 THEN stop
                 ELSE IF position + header.TotalSize > size THEN stop
                 ELSE StoreRecoverScan(data, size, position + header.TotalSize,
                                       header.Offset, TRUE)

storeRecoverNoStep(s, data) ==
    LET r == StoreRecoverScan(data, s.size, 0, s.baseOffset, FALSE)
    IN  [s EXCEPT !.writePos = r.position,
                  !.nextOffset = IF r.foundAny THEN r.lastOffset ELSE s.baseOffset]

\* store.Segment.recover()
storeRecover(s, data) ==
    LET r == StoreRecoverScan(data, s.size, 0, s.baseOffset, FALSE)
    IN  [s EXCEPT !.writePos = r.position,
                  !.nextOffset = IF r.foundAny THEN r.lastOffset + 1 ELSE s.baseOffset]

\* store.NewSegment(filename, baseOffset, maxSize): the file is extended to
\* maxSize, mapped, and scanned.  [s, data]
StoreNewSegment(file, baseOffset, maxSize) ==
    LET data == IF Len(file) < maxSize THEN file \o Zeros(maxSize - Len(file)) ELSE file
    IN  [s |-> storeRecover([size |-> maxSize, writePos |-> 0,
                             nextOffset |-> baseOffset, baseOffset |-> baseOffset], data),
         data |-> data]

\* Inputs: the sizes and records of the package's tests, and a record with
\* neither key nor value.
StoreBases == {0, 100}
StoreSizes == {HEADER_SIZE + 10, 100}
StoreRecords ==
    {[Offset |-> 0, Timestamp |-> 1, Key |-> <<107>>, Value |-> <<118>>],
     [Offset |-> 0, Timestamp |-> 2, Key |-> <<107, 101, 121, 50>>,
      Value |-> <<118, 97, 108, 117, 101, 50>>],
     [Offset |-> 0, Timestamp |-> 3, Key |-> <<>>, Value |-> <<>>]}

StoreOps == {"snew", "sappend", "sclose", "sreopen"}

othersUnchanged ==
    UNCHANGED <<files, Segments, activeSegment, activeOpen, cache, pstate,
                LogStartOffset, Config, readers, restarts, hist, snap, cleaner,
                slices, lru>>

\* The segment, its file and the outcome of the last call are kept as the
\* result of the last operation: s the Segment, file the bytes on disk (the
\* shared mapping while open), k the number of successful appends since the
\* file was created, need the size of the record of an append.
StoreNew ==
    /\ last.op = "none"
    /\ \E baseOffset \in StoreBases, maxSize \in StoreSizes :
           LET n == StoreNewSegment(<<>>, baseOffset, maxSize)
           IN  last' = [op |-> "snew", err |-> "nil", ret |-> 0, s |-> n.s,
                        file |-> n.data, open |-> TRUE, k |-> 0, need |-> 0]
    /\ othersUnchanged

StoreAppendCall ==
    /\ last.op \in StoreOps
    /\ last.open
    /\ \E r \in StoreRecords :
           LET a == StoreAppend(last.s, last.file, r)
           IN  last' = [op |-> "sappend", err |-> a.err, ret |-> a.ret, s |-> a.s,
                        file |-> a.data, open |-> TRUE,
                        k |-> IF a.err = "nil" THEN last.k + 1 ELSE last.k,
                        need |-> RecordSize(r)]
    /\ othersUnchanged

\* Segment.Close(): msync, munmap, close; the file keeps its bytes.
StoreClose ==
    /\ last.op \in StoreOps
    /\ last.open
    /\ last' = [last EXCEPT !.op = "sclose", !.err = "nil", !.ret = 0,
                            !.open = FALSE, !.need = 0]
    /\ othersUnchanged

\* NewSegment on the file of a closed segment, with its base offset and size.
StoreReopen ==
    /\ last.op \in StoreOps
    /\ ~last.open
    /\ LET n == StoreNewSegment(last.file, last.s.baseOffset, last.s.size)
       IN  last' = [op |-> "sreopen", err |-> "nil", ret |-> 0, s |-> n.s,
                    file |-> n.data, open |-> TRUE, k |-> last.k, need |-> 0]
    /\ othersUnchanged

NextStore ==
    \/ StoreNew
    \/ StoreAppendCall
    \/ StoreClose
    \/ StoreReopen

SpecStore == InitDefault /\ [][NextStore]_vars

\* C39: the k-th successful Append of a store.Segment returns base offset + k
\* and adds one to NextOffset; an Append whose record does not fit returns
\* ErrSegmentFull and leaves the segment and its file as they were; a reopen
\* after Close finds the NextOffset and SizeBytes the segment had, which are
\* the base offset and 0 when nothing was ever appended.
C39_StoreSegment ==
    [][/\ last'.op = "sappend" =>
              /\ (last'.err = "ErrSegmentFull") <=>
                     (last.s.writePos + last'.need > last.s.size)
              /\ last'.err \in {"nil", "ErrSegmentFull"}
       /\ (last'.op = "sappend" /\ last'.err = "nil") =>
              /\ last'.ret = last.s.baseOffset + last.k
              /\ last'.s.nextOffset = last.s.nextOffset + 1
              /\ last'.s.writePos = last.s.writePos + last'.need
       /\ (last'.op = "sappend" /\ last'.err = "ErrSegmentFull") =>
              /\ last'.s = last.s
              /\ last'.file = last.file
       /\ last'.op = "sreopen" =>
              /\ last'.s.nextOffset = last.s.nextOffset
              /\ last'.s.writePos = last.s.writePos
              /\ last.k = 0 => /\ last'.s.nextOffset = last.s.baseOffset
                               /\ last'.s.writePos = 0]_vars

\* C39 witness: a segment reopened after two appends, with the offsets and
\* the size it had.
C39_Witness ==
    /\ last.op = "sreopen"
    /\ last.k = 2
    /\ last.s.nextOffset = last.s.baseOffset + 2
    /\ last.s.writePos > 2 * HEADER_SIZE

====
